---- MODULE Spec2Model ----
(***************************************************************************)
(* Model of the OpenAI-compatible Cloudflare worker: the request pipeline  *)
(* (Router.handle: preflight, verifyApiKey, checkRateLimit, route match,   *)
(* controllers) and the streaming transcoder of ChatController.            *)
(*                                                                         *)
(* JavaScript strings that the code parses (the Authorization value, the   *)
(* upstream text) are sequences of one-character strings, so that match,   *)
(* replace, indexOf and slice are computed as the code computes them.      *)
(***************************************************************************)
EXTENDS Integers, Sequences, FiniteSets, TLC

VARIABLES
    kv,        \* RATE_LIMIT_KV: key -> [value, exp]
    apiKeys,   \* API_KEYS: key -> value
    now,       \* Math.floor(Date.now() / 1000)
    ticks,     \* number of clock steps taken so far
    calls,     \* number of requests handled so far
    last,      \* the last completed exchange (request, outcome, effects)
    win,       \* history: per rate-limit key, the current fixed window and its request count
    script,    \* the lines the upstream provider sends for one streaming response
    source,    \* the bytes the upstream stream has not delivered yet
    buffer,    \* transformedStream.start: buffer
    sentRole,  \* transformedStream.start: sentRole
    out,       \* the items enqueued on the output stream so far
    outState,  \* the output stream: "readable", "closed", "errored" or "cancelled"
    pc,        \* the start loop: "idle", "reading" or "stopped"
    stop,      \* why the loop stopped: "", "exhausted" or "failed"
    nextId,    \* number of crypto.randomUUID() calls made
    lateReads, \* history: reads started after the client cancelled
    inflight,  \* concurrent checkRateLimit calls: each call's position and locals
    admitted   \* history: per rate-limit key, the requests allowed in the window

pipeVars == <<kv, apiKeys, now, ticks, calls, last, win>>

streamVars == <<script, source, buffer, sentRole, out, outState, pc, stop, nextId, lateReads>>

raceVars == <<inflight, admitted>>

vars == <<pipeVars, streamVars, raceVars>>

----------------------------------------------------------------------------
(* Program constants                                                       *)

RATE_LIMIT == 100

WINDOW_SIZE == 60 * 60

(* Bounds of the model                                                     *)

\* clock steps explored
MaxTicks == 1

\* requests explored beyond RATE_LIMIT in the window specification
ExtraCalls == 2

\* requests per window of the second credential in the window specification
MaxOther == 1

\* requests handled one after another in the pipeline specification
MaxRequests == 1

----------------------------------------------------------------------------
(* Strings                                                                 *)

Str_Bearer_ == <<"B", "e", "a", "r", "e", "r", " ">>

Str_bearer == <<"b", "e", "a", "r", "e", "r">>

\* String.prototype.toLowerCase on one character of the alphabet used here
Lower(c) ==
    CASE c = "B" -> "b"
      [] c = "E" -> "e"
      [] c = "A" -> "a"
      [] c = "R" -> "r"
      [] OTHER -> c

\* the regular expression class \s, on the alphabet used here
IsSpace(c) == c \in {" ", "\t"}

RECURSIVE SpaceRun(_, _)
\* number of consecutive \s characters of s from position i on
SpaceRun(s, i) ==
    IF i <= Len(s) /\ IsSpace(s[i]) THEN 1 + SpaceRun(s, i + 1) ELSE 0

\* authHeader.match(/^Bearer\s+(.+)$/i): \s+ is greedy and gives one character
\* back when it would otherwise leave nothing for (.+)
BearerMatch(s) ==
    LET n == Len(s)
        prefixOK == n >= 6 /\ [i \in 1..6 |-> Lower(s[i])] = Str_bearer
        r == IF prefixOK THEN SpaceRun(s, 7) ELSE 0
        k == IF 6 + r = n THEN r - 1 ELSE r
    IN  IF prefixOK /\ k >= 1
        THEN [matched |-> TRUE, token |-> SubSeq(s, 7 + k, n)]
        ELSE [matched |-> FALSE, token |-> <<>>]

\* s.indexOf(pat), 1-based; 0 when pat does not occur
IndexOf(s, pat) ==
    LET hits == {i \in 1..(Len(s) - Len(pat) + 1) : SubSeq(s, i, i + Len(pat) - 1) = pat}
    IN  IF hits = {} THEN 0 ELSE CHOOSE i \in hits : \A j \in hits : i <= j

\* s.replace(pat, ''): the first occurrence only
ReplaceFirst(s, pat) ==
    LET i == IndexOf(s, pat)
    IN  IF i = 0 THEN s ELSE SubSeq(s, 1, i - 1) \o SubSeq(s, i + Len(pat), Len(s))

----------------------------------------------------------------------------
(* Headers and responses                                                   *)

\* request.headers.get(name): a value, or null when the header is absent
NoHeader == [present |-> FALSE, value |-> <<>>]

Header(s) == [present |-> TRUE, value |-> s]

\* new Headers(): names to values
NoHeaders == <<>>

\* headers.set(name, value)
HeaderSet(headers, name, value) == (name :> value) @@ headers

\* the JSON body {error: {message, type, param?}}; a message is the sequence of
\* its literal and interpolated parts, and param "" stands for no param
ErrorBody(message, type, param) ==
    [kind |-> "error", message |-> message, type |-> type, param |-> param]

\* createApiResponse(body, init)
createApiResponse(body, status, initHeaders) ==
    [status |-> status,
     headers |-> HeaderSet(initHeaders, "Content-Type", "application/json"),
     body |-> body]

----------------------------------------------------------------------------
(* Key-value store                                                         *)

Null == [isNull |-> TRUE, value |-> <<>>]

Found(v) == [isNull |-> FALSE, value |-> v]

\* KVNamespace.get: null for a missing or expired key
KVGet(store, key, t) ==
    IF key \in DOMAIN store /\ t < store[key].exp THEN Found(store[key].value) ELSE Null

\* KVNamespace.put(key, value, {expirationTtl})
KVPut(store, key, value, t, ttl) ==
    [k \in DOMAIN store \cup {key} |->
        IF k = key THEN [value |-> value, exp |-> t + ttl] ELSE store[k]]

\* JSON.stringify / JSON.parse of RateLimitData
StringifyData(d) == <<"count", d.count, "timestamp", d.timestamp>>

ParseData(s) == [count |-> s[2], timestamp |-> s[4]]

----------------------------------------------------------------------------
(* Rate limiter                                                            *)

\* request.headers.get('Authorization')?.replace('Bearer ', '')
RateLimitApiKey(h) ==
    IF h.present THEN Header(ReplaceFirst(h.value, Str_Bearer_)) ELSE NoHeader

RateLimitKey(apiKey) == <<"ratelimit:">> \o apiKey

\* the record decided on when an elapsed window is not reset
CurrentData_NoReset(currentData, t) ==
    IF ~currentData.isNull THEN ParseData(currentData.value)
    ELSE [count |-> 0, timestamp |-> t]

\* the record the limiter decides on: the stored one, or a fresh one when the
\* stored one is missing or its window has elapsed
CurrentData(currentData, t) ==
    IF ~currentData.isNull
    THEN LET data == ParseData(currentData.value)
         IN  IF t - data.timestamp >= WINDOW_SIZE
             THEN [count |-> 0, timestamp |-> t]
             ELSE data
    ELSE [count |-> 0, timestamp |-> t]

\* the limit test that never rejects
LimitExceeded_Never(data) == FALSE

LimitExceeded_OffByOne(data) == data.count > RATE_LIMIT

LimitExceeded(data) == data.count >= RATE_LIMIT

RateLimitExceededResponse(data) ==
    createApiResponse(ErrorBody(<<"Rate limit exceeded">>, "rate_limit_error", ""), 429,
        ("X-RateLimit-Limit" :> ToString(RATE_LIMIT))
        @@ ("X-RateLimit-Remaining" :> "0")
        @@ ("X-RateLimit-Reset" :> ToString(data.timestamp + WINDOW_SIZE)))

\* the RateLimitInfo with the window start as reset
RateLimitInfoOf_WindowStart(data) ==
    [remaining |-> RATE_LIMIT - data.count,
     reset |-> data.timestamp,
     total |-> RATE_LIMIT]

RateLimitInfoOf(data) ==
    [remaining |-> RATE_LIMIT - data.count,
     reset |-> data.timestamp + WINDOW_SIZE,
     total |-> RATE_LIMIT]

\* stands for "no RateLimitInfo was returned"
NoInfo == [remaining |-> -1, reset |-> -1, total |-> -1]

\* stands for "no Response was returned"
NoResponse == [status |-> 0, headers |-> NoHeaders, body |-> [kind |-> "none"]]

\* checkRateLimit writing the record back when it rejects
checkRateLimit_WriteOnReject(h, store, t, fault) ==
    LET apiKey == RateLimitApiKey(h)
        key == RateLimitKey(apiKey.value)
        data == CurrentData(KVGet(store, key, t), t)
        next == [data EXCEPT !.count = data.count + 1]
    IN  IF LimitExceeded(data)
        THEN [allowed |-> FALSE, info |-> NoInfo,
              store |-> KVPut(store, key, StringifyData(data), t, WINDOW_SIZE),
              reads |-> 1, writes |-> 1, response |-> RateLimitExceededResponse(data)]
        ELSE [allowed |-> TRUE, info |-> RateLimitInfoOf(next),
              store |-> KVPut(store, key, StringifyData(next), t, WINDOW_SIZE),
              reads |-> 1, writes |-> 1, response |-> NoResponse]

\* checkRateLimit without the credential test of its first lines: the store is
\* consulted whatever the header held
checkRateLimit_NoCredentialCheck(h, store, t, fault) ==
    LET apiKey == RateLimitApiKey(h)
        key == RateLimitKey(apiKey.value)
        data == CurrentData(KVGet(store, key, t), t)
        next == [data EXCEPT !.count = data.count + 1]
        error == createApiResponse(
                     ErrorBody(<<"Error checking rate limit">>, "server_error", ""),
                     500, NoHeaders)
    IN  IF fault = "rlGet"
        THEN [allowed |-> FALSE, info |-> NoInfo, store |-> store, reads |-> 1, writes |-> 0,
              response |-> error]
        ELSE IF LimitExceeded(data)
        THEN [allowed |-> FALSE, info |-> NoInfo, store |-> store, reads |-> 1, writes |-> 0,
              response |-> RateLimitExceededResponse(data)]
        ELSE IF fault = "rlPut"
        THEN [allowed |-> FALSE, info |-> NoInfo, store |-> store, reads |-> 1, writes |-> 1,
              response |-> error]
        ELSE [allowed |-> TRUE, info |-> RateLimitInfoOf(next),
              store |-> KVPut(store, key, StringifyData(next), t, WINDOW_SIZE),
              reads |-> 1, writes |-> 1, response |-> NoResponse]

\* checkRateLimit run from its first line to its return: what it returns (info or
\* response), the store afterwards and the store operations it started; fault is
\* the store operation that throws ("none", "rlGet", "rlPut")
checkRateLimit(h, store, t, fault) ==
    LET apiKey == RateLimitApiKey(h)
        key == RateLimitKey(apiKey.value)
        data == CurrentData(KVGet(store, key, t), t)
        next == [data EXCEPT !.count = data.count + 1]
        error == createApiResponse(
                     ErrorBody(<<"Error checking rate limit">>, "server_error", ""),
                     500, NoHeaders)
    IN  IF ~apiKey.present \/ apiKey.value = <<>>
        THEN [allowed |-> FALSE, info |-> NoInfo, store |-> store, reads |-> 0, writes |-> 0,
              response |-> createApiResponse(
                  ErrorBody(<<"Missing API key for rate limiting">>, "rate_limit_error", ""),
                  429, NoHeaders)]
        ELSE IF fault = "rlGet"
        THEN [allowed |-> FALSE, info |-> NoInfo, store |-> store, reads |-> 1, writes |-> 0,
              response |-> error]
        ELSE IF LimitExceeded(data)
        THEN [allowed |-> FALSE, info |-> NoInfo, store |-> store, reads |-> 1, writes |-> 0,
              response |-> RateLimitExceededResponse(data)]
        ELSE IF fault = "rlPut"
        THEN [allowed |-> FALSE, info |-> NoInfo, store |-> store, reads |-> 1, writes |-> 1,
              response |-> error]
        ELSE [allowed |-> TRUE, info |-> RateLimitInfoOf(next),
              store |-> KVPut(store, key, StringifyData(next), t, WINDOW_SIZE),
              reads |-> 1, writes |-> 1, response |-> NoResponse]

----------------------------------------------------------------------------
(* History of fixed windows, kept beside the program                       *)

\* the request at time t for key k is the n-th of the window that began at start
WinStep(w, k, t) ==
    IF k \in DOMAIN w /\ t - w[k].start < WINDOW_SIZE
    THEN [x \in DOMAIN w |-> IF x = k THEN [w[k] EXCEPT !.n = w[k].n + 1] ELSE w[x]]
    ELSE [x \in DOMAIN w \cup {k} |-> IF x = k THEN [start |-> t, n |-> 1] ELSE w[x]]

----------------------------------------------------------------------------
(* Window specification: checkRateLimit called one request at a time,      *)
(* starting from an empty store                                            *)

MainHeader == Header(<<"B", "e", "a", "r", "e", "r", " ", "a">>)

OtherHeader == Header(<<"B", "e", "a", "r", "e", "r", " ", "b">>)

WindowHeaders == {MainHeader, OtherHeader}

TickSteps == {1, WINDOW_SIZE - 1, WINDOW_SIZE}

NoExchange == [kind |-> "none"]

\* no concurrent checkRateLimit calls are in progress
RaceIdle ==
    /\ inflight = <<>>
    /\ admitted = <<>>

\* no streaming response is in progress
StreamIdle ==
    /\ script = <<>>
    /\ source = <<>>
    /\ buffer = <<>>
    /\ sentRole = FALSE
    /\ out = <<>>
    /\ outState = "readable"
    /\ pc = "idle"
    /\ stop = ""
    /\ nextId = 0
    /\ lateReads = 0

InitWindow ==
    /\ StreamIdle
    /\ RaceIdle
    /\ kv = <<>>
    /\ apiKeys = <<>>
    /\ now = 0
    /\ ticks = 0
    /\ calls = 0
    /\ last = NoExchange
    /\ win = <<>>

\* the clock advances between requests
Tick ==
    /\ ticks < MaxTicks
    /\ \E d \in TickSteps : now' = now + d
    /\ ticks' = ticks + 1
    /\ UNCHANGED <<kv, apiKeys, calls, last, win>>
    /\ UNCHANGED streamVars
    /\ UNCHANGED raceVars

\* one call of checkRateLimit, from its first line to its return
LimiterCall ==
    /\ calls < RATE_LIMIT + ExtraCalls
    /\ \E h \in WindowHeaders :
        LET r == checkRateLimit(h, kv, now, "none")
            k == RateLimitKey(RateLimitApiKey(h).value)
            w == WinStep(win, k, now)
        IN  /\ h = MainHeader \/ w[k].n <= MaxOther
            /\ kv' = r.store
            /\ win' = w
            /\ last' = [kind |-> "limiter", key |-> k, n |-> w[k].n, at |-> now,
                        allowed |-> r.allowed, info |-> r.info, response |-> r.response]
    /\ calls' = calls + 1
    /\ UNCHANGED <<apiKeys, now, ticks>>
    /\ UNCHANGED streamVars
    /\ UNCHANGED raceVars

NextWindow == Tick \/ LimiterCall

\* C1: requests of one credential handled one at a time in one window: the N-th
\* request with N <= RATE_LIMIT is allowed with remaining = RATE_LIMIT - N, and
\* request RATE_LIMIT + 1 is answered 429 rate_limit_error with
\* X-RateLimit-Remaining: 0.
C1_NthRequestInWindow ==
    last.kind = "limiter" =>
        /\ last.n <= RATE_LIMIT =>
              /\ last.allowed
              /\ last.info.remaining = RATE_LIMIT - last.n
        /\ last.n = RATE_LIMIT + 1 =>
              /\ ~last.allowed
              /\ last.response.status = 429
              /\ last.response.body.type = "rate_limit_error"
              /\ last.response.body.kind = "error"
              /\ "X-RateLimit-Remaining" \in DOMAIN last.response.headers
              /\ last.response.headers["X-RateLimit-Remaining"] = "0"

\* request RATE_LIMIT + 1 of a window was handled, after a clock step inside the window
C1_Witness ==
    /\ last.kind = "limiter"
    /\ last.n = RATE_LIMIT + 1
    /\ last.at > 0
    /\ last.response.status = 429

SpecWindow == InitWindow /\ [][NextWindow]_vars

----------------------------------------------------------------------------
(* Authenticator                                                           *)

Str_apikey == <<"a", "p", "i", "k", "e", "y">>

\* env.API_KEYS.get("apikey", 'json')
KeyInfo(keys) == IF Str_apikey \in DOMAIN keys THEN Found(keys[Str_apikey]) ELSE Null

AuthError(message) == createApiResponse(ErrorBody(message, "authentication_error", ""), 401, NoHeaders)

\* verifyApiKey with the key-existence check that the source keeps commented out
verifyApiKey_Enforced(h, keys, fault) ==
    IF ~h.present \/ h.value = <<>>
    THEN AuthError(<<"No API key provided. Include as Bearer token in Authorization header">>)
    ELSE IF ~BearerMatch(h.value).matched
    THEN AuthError(<<"Invalid Authorization header format. Use \"Bearer YOUR-API-KEY\"">>)
    ELSE IF fault = "keysGet"
    THEN createApiResponse(ErrorBody(<<"Error verifying API key">>, "server_error", ""),
                           500, NoHeaders)
    ELSE IF KeyInfo(keys).isNull
    THEN AuthError(<<"Invalid API key provided">>)
    ELSE NoResponse

\* verifyApiKey with a case-sensitive, single-space pattern
verifyApiKey_Strict(h, keys, fault) ==
    IF ~h.present \/ h.value = <<>>
    THEN AuthError(<<"No API key provided. Include as Bearer token in Authorization header">>)
    ELSE IF ~(Len(h.value) > 7 /\ SubSeq(h.value, 1, 7) = Str_Bearer_)
    THEN AuthError(<<"Invalid Authorization header format. Use \"Bearer YOUR-API-KEY\"">>)
    ELSE IF fault = "keysGet"
    THEN createApiResponse(ErrorBody(<<"Error verifying API key">>, "server_error", ""),
                           500, NoHeaders)
    ELSE NoResponse

\* verifyApiKey passing the request when the key-store read throws
verifyApiKey_FailOpen(h, keys, fault) ==
    IF ~h.present \/ h.value = <<>>
    THEN AuthError(<<"No API key provided. Include as Bearer token in Authorization header">>)
    ELSE IF ~BearerMatch(h.value).matched
    THEN AuthError(<<"Invalid Authorization header format. Use \"Bearer YOUR-API-KEY\"">>)
    ELSE NoResponse

\* verifyApiKey: an error response, or NoResponse (null) when the request passes;
\* fault = "keysGet" is the key-store read throwing
verifyApiKey(h, keys, fault) ==
    IF ~h.present \/ h.value = <<>>
    THEN AuthError(<<"No API key provided. Include as Bearer token in Authorization header">>)
    ELSE IF ~BearerMatch(h.value).matched
    THEN AuthError(<<"Invalid Authorization header format. Use \"Bearer YOUR-API-KEY\"">>)
    ELSE IF fault = "keysGet"
    THEN createApiResponse(ErrorBody(<<"Error verifying API key">>, "server_error", ""),
                           500, NoHeaders)
    ELSE LET keyInfo == KeyInfo(keys)
         IN  NoResponse

\* the number of env.API_KEYS.get calls verifyApiKey makes for the header
KeyStoreReads(h) ==
    IF h.present /\ h.value # <<>> /\ BearerMatch(h.value).matched THEN 1 ELSE 0

----------------------------------------------------------------------------
(* JSON values of a request body. Numbers are kept in tenths (20 is 2.0).   *)

JUndefined == [t |-> "undefined"]

JNull == [t |-> "null"]

JNum(tenths) == [t |-> "number", v |-> tenths]

JStr(s) == [t |-> "string", v |-> s]

JBool(b) == [t |-> "boolean", v |-> b]

JArr(a) == [t |-> "array", v |-> a]

\* ToBoolean
Truthy(x) ==
    CASE x.t = "undefined" -> FALSE
      [] x.t = "null" -> FALSE
      [] x.t = "number" -> x.v # 0
      [] x.t = "string" -> x.v # <<>>
      [] x.t = "boolean" -> x.v
      [] OTHER -> TRUE

Str_system == <<"s", "y", "s", "t", "e", "m">>

Str_user == <<"u", "s", "e", "r">>

Str_assistant == <<"a", "s", "s", "i", "s", "t", "a", "n", "t">>

----------------------------------------------------------------------------
(* Request validator                                                       *)

NoError == [isError |-> FALSE, message |-> <<>>, param |-> ""]

ValidationError(message, param) == [isError |-> TRUE, message |-> message, param |-> param]

\* !message.role || !['system', 'user', 'assistant'].includes(message.role)
RoleInvalid(m) ==
    \/ ~Truthy(m.role)
    \/ ~(m.role.t = "string" /\ m.role.v \in {Str_system, Str_user, Str_assistant})

\* the for loop over body.messages.entries() testing content before role
MessagesError_ContentFirst(msgs) ==
    LET bad == {i \in 1..Len(msgs) : RoleInvalid(msgs[i]) \/ ~Truthy(msgs[i].content)}
        i == CHOOSE x \in bad : \A y \in bad : x <= y
    IN  IF bad = {} THEN NoError
        ELSE IF ~Truthy(msgs[i].content)
        THEN ValidationError(<<"message at index ", ToString(i - 1),
                 " must have non-empty content string">>, "messages")
        ELSE ValidationError(<<"message at index ", ToString(i - 1),
                 " has invalid role. Must be one of: system, user, assistant">>, "messages")

\* the for loop over body.messages.entries(): the first message that fails a check
MessagesError(msgs) ==
    LET bad == {i \in 1..Len(msgs) : RoleInvalid(msgs[i]) \/ ~Truthy(msgs[i].content)}
        i == CHOOSE x \in bad : \A y \in bad : x <= y
    IN  IF bad = {} THEN NoError
        ELSE IF RoleInvalid(msgs[i])
        THEN ValidationError(<<"message at index ", ToString(i - 1),
                 " has invalid role. Must be one of: system, user, assistant">>, "messages")
        ELSE ValidationError(<<"message at index ", ToString(i - 1),
                 " must have non-empty content string">>, "messages")

\* validateRequestBody: the first failing check, or NoError (null)
validateRequestBody(body) ==
    IF ~Truthy(body.model)
    THEN ValidationError(<<"model is required">>, "model")
    ELSE IF body.messages.t # "array" \/ Len(body.messages.v) = 0
    THEN ValidationError(<<"messages array is required and cannot be empty">>, "messages")
    ELSE IF MessagesError(body.messages.v).isError
    THEN MessagesError(body.messages.v)
    ELSE IF /\ body.temperature.t # "undefined"
            /\ (body.temperature.t # "number" \/ body.temperature.v < 0
                \/ body.temperature.v > 20)
    THEN ValidationError(<<"temperature must be a number between 0 and 2">>, "temperature")
    ELSE IF /\ body.max_tokens.t # "undefined"
            /\ (body.max_tokens.t # "number" \/ body.max_tokens.v < 10)
    THEN ValidationError(<<"max_tokens must be a positive number">>, "max_tokens")
    ELSE IF body.stream.t # "undefined" /\ body.stream.t # "boolean"
    THEN ValidationError(<<"stream must be a boolean value">>, "stream")
    ELSE NoError

\* createErrorResponse(message, type, param) with the default status 400
createErrorResponse(message, type, param) ==
    [status |-> 400,
     headers |-> HeaderSet(NoHeaders, "Content-Type", "application/json"),
     body |-> ErrorBody(message, type, param)]

\* calculateTokens rounding down
calculateTokens_Floor(text) == Len(text) \div 4

\* calculateTokens: Math.ceil(text.length / 4)
calculateTokens(text) == (Len(text) + 3) \div 4

----------------------------------------------------------------------------
(* Security headers                                                        *)

SecurityHeaders ==
    ("Strict-Transport-Security" :> "max-age=31536000; includeSubDomains")
    @@ ("X-Content-Type-Options" :> "nosniff")
    @@ ("X-Frame-Options" :> "DENY")
    @@ ("X-XSS-Protection" :> "1; mode=block")
    @@ ("Referrer-Policy" :> "strict-origin-when-cross-origin")
    @@ ("Content-Security-Policy" :> "default-src 'none'; frame-ancestors 'none'")
    @@ ("Permissions-Policy" :> "accelerometer=(), camera=(), geolocation=(), gyroscope=(), magnetometer=(), microphone=(), payment=(), usb=()")

\* addSecurityHeaders replacing the headers object's contents by the seven headers
addSecurityHeaders_Only(headers) == SecurityHeaders

\* addSecurityHeaders(headers): seven headers.set calls
addSecurityHeaders(headers) == SecurityHeaders @@ headers

\* a response after addSecurityHeaders(response.headers)
Secured(response) == [response EXCEPT !.headers = addSecurityHeaders(response.headers)]

----------------------------------------------------------------------------
(* Model registry and completion engine                                    *)

\* models.json: the catalog, one model with the chat capability and one without
modelsData ==
    << [id |-> <<"@cf/chat-model">>, capabilities |-> [chat |-> TRUE]],
       [id |-> <<"@cf/embedding-model">>, capabilities |-> [chat |-> FALSE]] >>

\* models.find(m => m.id === params.model)
FindModel(id) ==
    LET hits == {i \in 1..Len(modelsData) : modelsData[i].id = id}
    IN  IF hits = {} THEN [found |-> FALSE, chat |-> FALSE]
        ELSE [found |-> TRUE,
              chat |-> modelsData[CHOOSE i \in hits : \A j \in hits : i <= j].capabilities.chat]

\* params.messages.filter(msg => msg.content && msg.content !== '')
ValidMessages(msgs) == SelectSeq(msgs, LAMBDA m : Truthy(m.content))

DEFAULT_MAX_TOKENS == 256

DEFAULT_TEMPERATURE_TENTHS == 7

\* the argument of ai.run: x || default for max_tokens and temperature
RunParams(params, stream) ==
    [model |-> params.model.v,
     messages |-> ValidMessages(params.messages.v),
     stream |-> stream,
     max_tokens |-> IF Truthy(params.max_tokens) THEN params.max_tokens.v
                    ELSE DEFAULT_MAX_TOKENS * 10,
     temperature |-> IF Truthy(params.temperature) THEN params.temperature.v
                     ELSE DEFAULT_TEMPERATURE_TENTHS]

Thrown(message) ==
    [threw |-> TRUE, message |-> message, isStream |-> FALSE, content |-> <<>>,
     upstream |-> <<>>]

\* generateChatCompletion falling back to the first chat model for an unknown id
generateChatCompletion_Fallback(params, stream, ai) ==
    LET modelInfo == FindModel(params.model.v)
        p == IF modelInfo.found THEN params
             ELSE [params EXCEPT !.model = JStr(modelsData[1].id)]
    IN  IF modelInfo.found /\ ~modelInfo.chat
        THEN Thrown(<<"Model ", params.model.v, " does not support chat completions">>)
        ELSE IF Len(ValidMessages(params.messages.v)) = 0
        THEN Thrown(<<"No valid messages with content found">>)
        ELSE IF stream
        THEN [threw |-> FALSE, message |-> <<>>, isStream |-> TRUE, content |-> <<>>,
              upstream |-> <<RunParams(p, TRUE)>>]
        ELSE IF ai.kind = "throws"
        THEN [Thrown(<<"upstream failure">>) EXCEPT !.upstream = <<RunParams(p, FALSE)>>]
        ELSE IF ai.kind = "null" \/ ai.text = <<>>
        THEN [Thrown(<<"Invalid response from AI service">>)
                 EXCEPT !.upstream = <<RunParams(p, FALSE)>>]
        ELSE [threw |-> FALSE, message |-> <<>>, isStream |-> FALSE, content |-> ai.text,
              upstream |-> <<RunParams(p, FALSE)>>]

\* AIService.generateChatCompletion: a thrown Error, a stream, or {content, finishReason};
\* upstream lists the ai.run calls made; ai is what ai.run does when called
generateChatCompletion(params, stream, ai) ==
    LET modelInfo == FindModel(params.model.v)
    IN  IF ~modelInfo.found
        THEN Thrown(<<"Model ", params.model.v, " not found">>)
        ELSE IF ~modelInfo.chat
        THEN Thrown(<<"Model ", params.model.v, " does not support chat completions">>)
        ELSE IF Len(ValidMessages(params.messages.v)) = 0
        THEN Thrown(<<"No valid messages with content found">>)
        ELSE IF stream
        THEN [threw |-> FALSE, message |-> <<>>, isStream |-> TRUE, content |-> <<>>,
              upstream |-> <<RunParams(params, TRUE)>>]
        ELSE IF ai.kind = "throws"
        THEN [Thrown(<<"upstream failure">>) EXCEPT !.upstream = <<RunParams(params, FALSE)>>]
        ELSE IF ai.kind = "null" \/ ai.text = <<>>
        THEN [Thrown(<<"Invalid response from AI service">>)
                 EXCEPT !.upstream = <<RunParams(params, FALSE)>>]
        ELSE [threw |-> FALSE, message |-> <<>>, isStream |-> FALSE, content |-> ai.text,
              upstream |-> <<RunParams(params, FALSE)>>]

----------------------------------------------------------------------------
(* Controllers                                                             *)

\* the catch block of createChatCompletion
ChatServerError(message) ==
    Secured([status |-> 500,
             headers |-> HeaderSet(NoHeaders, "Content-Type", "application/json"),
             body |-> ErrorBody(message, "server_error", "")])

\* ...(rateLimitInfo && {'X-RateLimit-Limit': ..., ...})
RateLimitInfoHeaders(info) ==
    ("X-RateLimit-Limit" :> ToString(info.total))
    @@ ("X-RateLimit-Remaining" :> ToString(info.remaining))
    @@ ("X-RateLimit-Reset" :> ToString(info.reset))

\* prompt tokens counted once over all contents together
PromptTokens_OfTotal(msgs) ==
    LET total[i \in 0..Len(msgs)] ==
            IF i = 0 THEN 0 ELSE total[i - 1] + Len(msgs[i].content.v)
    IN  calculateTokens([i \in 1..total[Len(msgs)] |-> "x"])

RECURSIVE PromptTokens(_)
\* body.messages.reduce((acc, msg) => acc + calculateTokens(msg.content), 0)
PromptTokens(msgs) ==
    IF msgs = <<>> THEN 0
    ELSE PromptTokens(SubSeq(msgs, 1, Len(msgs) - 1))
         + calculateTokens(msgs[Len(msgs)].content.v)

\* ChatController.createChatCompletion: the response and the ai.run calls made.
\* body.t = "invalid" is a body request.json() rejects, "null" the JSON value null
createChatCompletion(body, rateLimitInfo, ai) ==
    IF body.t = "invalid"
    THEN [response |-> ChatServerError(<<"Unexpected end of JSON input">>), upstream |-> <<>>]
    ELSE IF body.t = "null"
    THEN [response |-> ChatServerError(<<"Cannot read properties of null (reading 'model')">>),
          upstream |-> <<>>]
    ELSE LET validationError == validateRequestBody(body)
             g == generateChatCompletion(body, Truthy(body.stream), ai)
             promptTokens == PromptTokens(body.messages.v)
             completionTokens == calculateTokens(g.content)
         IN  IF validationError.isError
             THEN [response |-> Secured(createErrorResponse(validationError.message,
                                    "invalid_request_error", validationError.param)),
                   upstream |-> <<>>]
             ELSE IF g.threw
             THEN [response |-> ChatServerError(g.message), upstream |-> g.upstream]
             ELSE IF g.isStream
             THEN [response |-> Secured(
                      [status |-> 200,
                       headers |-> ("Content-Type" :> "text/event-stream")
                                   @@ ("Cache-Control" :> "no-cache")
                                   @@ ("Connection" :> "keep-alive")
                                   @@ RateLimitInfoHeaders(rateLimitInfo),
                       body |-> [kind |-> "stream", model |-> body.model.v]]),
                   upstream |-> g.upstream]
             ELSE [response |-> Secured(
                      [status |-> 200,
                       headers |-> ("Content-Type" :> "application/json")
                                   @@ RateLimitInfoHeaders(rateLimitInfo),
                       body |-> [kind |-> "completion", model |-> body.model.v,
                                 content |-> g.content, finish_reason |-> "stop",
                                 usage |-> [prompt_tokens |-> promptTokens,
                                            completion_tokens |-> completionTokens,
                                            total_tokens |-> promptTokens + completionTokens]]]),
                   upstream |-> g.upstream]

\* ModelsController.listModels
listModels ==
    [response |-> Secured(
        [status |-> 200,
         headers |-> HeaderSet(NoHeaders, "Content-Type", "application/json"),
         body |-> [kind |-> "list", data |-> modelsData]]),
     upstream |-> <<>>]

----------------------------------------------------------------------------
(* Router                                                                  *)

\* Router.handlePreflight
handlePreflight ==
    [status |-> 200,
     headers |-> addSecurityHeaders(
                     ("Access-Control-Allow-Origin" :> "*")
                     @@ ("Access-Control-Allow-Methods" :> "GET, POST, OPTIONS")
                     @@ ("Access-Control-Allow-Headers" :> "Content-Type, Authorization")
                     @@ ("Access-Control-Max-Age" :> "86400")),
     body |-> [kind |-> "empty"]]

NotFound ==
    createApiResponse(ErrorBody(<<"Not Found">>, "invalid_request_error", ""), 404, NoHeaders)

IsChatRoute(req) == req.path = "/v1/chat/completions" /\ req.method = "POST"

IsModelsRoute(req) == req.path = "/v1/models" /\ req.method = "GET"

\* the switch of Router.handle: "chat", "models" or "none"
Route_SwappedMethods(req) ==
    IF req.path = "/v1/chat/completions" /\ req.method = "GET" THEN "chat"
    ELSE IF req.path = "/v1/models" /\ req.method = "POST" THEN "models"
    ELSE "none"

Route(req) ==
    IF IsChatRoute(req) THEN "chat"
    ELSE IF IsModelsRoute(req) THEN "models"
    ELSE "none"

\* a record of one run of Router.handle: the response, the store afterwards, and
\* which gates ran with what result
Outcome(response, store, stage, auth, keyReads, rl, route, upstream) ==
    [response |-> response, store |-> store, stage |-> stage, auth |-> auth,
     keyReads |-> keyReads, allowed |-> rl.allowed, info |-> rl.info, reads |-> rl.reads, writes |-> rl.writes,
     route |-> route, upstream |-> upstream]

NoLimiter ==
    [allowed |-> FALSE, info |-> NoInfo, reads |-> 0, writes |-> 0]

\* Router.handle, skipping the Authenticator for every request
handle_NoAuth(req, store, keys, t, fault, ai) ==
    LET rl == checkRateLimit(req.auth, store, t, fault)
        c == IF Route(req) = "chat" THEN createChatCompletion(req.body, rl.info, ai)
             ELSE IF Route(req) = "models" THEN listModels
             ELSE [response |-> NotFound, upstream |-> <<>>]
    IN  IF req.method = "OPTIONS"
        THEN Outcome(handlePreflight, store, "preflight", NoResponse, 0, NoLimiter, "none", <<>>)
        ELSE IF ~rl.allowed
        THEN Outcome(Secured(rl.response), store, "limiter", NoResponse, 0, rl, "none", <<>>)
        ELSE Outcome(c.response, rl.store, "route", NoResponse, 0, rl, Route(req), c.upstream)

\* Router.handle going on to the routes whatever the Rate Limiter returned
handle_LimiterIgnored(req, store, keys, t, fault, ai) ==
    LET apiKeyError == verifyApiKey(req.auth, keys, fault)
        keyReads == KeyStoreReads(req.auth)
        rl == checkRateLimit(req.auth, store, t, fault)
        c == IF Route(req) = "chat" THEN createChatCompletion(req.body, rl.info, ai)
             ELSE IF Route(req) = "models" THEN listModels
             ELSE [response |-> NotFound, upstream |-> <<>>]
    IN  IF req.method = "OPTIONS"
        THEN Outcome(handlePreflight, store, "preflight", NoResponse, 0, NoLimiter, "none", <<>>)
        ELSE IF apiKeyError.status # 0
        THEN Outcome(Secured(apiKeyError), store, "auth", apiKeyError, keyReads,
                     NoLimiter, "none", <<>>)
        ELSE Outcome(c.response, rl.store, "route", apiKeyError, keyReads,
                     rl, Route(req), c.upstream)

\* Router.handle with the OPTIONS test after the two gates
handle_GatesFirst(req, store, keys, t, fault, ai) ==
    LET apiKeyError == verifyApiKey(req.auth, keys, fault)
        keyReads == KeyStoreReads(req.auth)
        rl == checkRateLimit(req.auth, store, t, fault)
    IN  IF apiKeyError.status # 0
        THEN Outcome(Secured(apiKeyError), store, "auth", apiKeyError, keyReads,
                     NoLimiter, "none", <<>>)
        ELSE IF ~rl.allowed
        THEN Outcome(Secured(rl.response), store, "limiter", apiKeyError, keyReads,
                     rl, "none", <<>>)
        ELSE IF req.method = "OPTIONS"
        THEN Outcome(handlePreflight, rl.store, "preflight", apiKeyError, keyReads,
                     rl, "none", <<>>)
        ELSE Outcome(NotFound, rl.store, "route", apiKeyError, keyReads,
                     rl, Route(req), <<>>)

\* Router.handle, matching the route before the Rate Limiter is asked: a request
\* for an unknown route is answered without being counted
handle_RouteFirst(req, store, keys, t, fault, ai) ==
    LET apiKeyError == verifyApiKey(req.auth, keys, fault)
        keyReads == KeyStoreReads(req.auth)
        rl == checkRateLimit(req.auth, store, t, fault)
        c == IF Route(req) = "chat" THEN createChatCompletion(req.body, rl.info, ai)
             ELSE listModels
    IN  IF req.method = "OPTIONS"
        THEN Outcome(handlePreflight, store, "preflight", NoResponse, 0, NoLimiter, "none", <<>>)
        ELSE IF apiKeyError.status # 0
        THEN Outcome(Secured(apiKeyError), store, "auth", apiKeyError, keyReads,
                     NoLimiter, "none", <<>>)
        ELSE IF Route(req) = "none"
        THEN Outcome(NotFound, store, "route", apiKeyError, keyReads,
                     NoLimiter, "none", <<>>)
        ELSE IF ~rl.allowed
        THEN Outcome(Secured(rl.response), store, "limiter", apiKeyError, keyReads,
                     rl, "none", <<>>)
        ELSE Outcome(c.response, rl.store, "route", apiKeyError, keyReads,
                     rl, Route(req), c.upstream)

\* Router.handle, asking the Rate Limiter before the Authenticator: a request
\* the Authenticator rejects has been counted by then
handle_LimiterFirst(req, store, keys, t, fault, ai) ==
    LET apiKeyError == verifyApiKey(req.auth, keys, fault)
        keyReads == KeyStoreReads(req.auth)
        rl == checkRateLimit(req.auth, store, t, fault)
        c == IF Route(req) = "chat" THEN createChatCompletion(req.body, rl.info, ai)
             ELSE IF Route(req) = "models" THEN listModels
             ELSE [response |-> NotFound, upstream |-> <<>>]
    IN  IF req.method = "OPTIONS"
        THEN Outcome(handlePreflight, store, "preflight", NoResponse, 0, NoLimiter, "none", <<>>)
        ELSE IF ~rl.allowed
        THEN Outcome(Secured(rl.response), store, "limiter", NoResponse, 0,
                     rl, "none", <<>>)
        ELSE IF apiKeyError.status # 0
        THEN Outcome(Secured(apiKeyError), rl.store, "auth", apiKeyError, keyReads,
                     rl, "none", <<>>)
        ELSE Outcome(c.response, rl.store, "route", apiKeyError, keyReads,
                     rl, Route(req), c.upstream)

\* Router.handle
handle(req, store, keys, t, fault, ai) ==
    LET apiKeyError == verifyApiKey(req.auth, keys, fault)
        keyReads == KeyStoreReads(req.auth)
        rl == checkRateLimit(req.auth, store, t, fault)
        c == IF Route(req) = "chat" THEN createChatCompletion(req.body, rl.info, ai)
             ELSE IF Route(req) = "models" THEN listModels
             ELSE [response |-> NotFound, upstream |-> <<>>]
    IN  IF req.method = "OPTIONS"
        THEN Outcome(handlePreflight, store, "preflight", NoResponse, 0, NoLimiter, "none", <<>>)
        ELSE IF apiKeyError.status # 0
        THEN Outcome(Secured(apiKeyError), store, "auth", apiKeyError, keyReads,
                     NoLimiter, "none", <<>>)
        ELSE IF ~rl.allowed
        THEN Outcome(Secured(rl.response), store, "limiter", apiKeyError, keyReads,
                     rl, "none", <<>>)
        ELSE Outcome(c.response, rl.store, "route", apiKeyError, keyReads,
                     rl, Route(req), c.upstream)

\* the worker's fetch returning what the router returned, untouched
fetch_AsReturned(req, store, keys, t, fault, ai) ==
    handle(req, store, keys, t, fault, ai)

\* the worker's fetch: router.handle, then addSecurityHeaders on whatever it returned
fetch(req, store, keys, t, fault, ai) ==
    LET r == handle(req, store, keys, t, fault, ai)
    IN  [r EXCEPT !.response = Secured(r.response)]

----------------------------------------------------------------------------
(* Pipeline specification: whole requests through fetch, one at a time,     *)
(* against stores left behind by earlier requests                          *)

AuthValues ==
    { <<>>,
      <<"B", "e", "a", "r", "e", "r", " ", "a">>,
      <<"b", "e", "a", "r", "e", "r", " ", "a">>,
      <<"B", "E", "A", "R", "E", "R", " ", "a">>,
      <<"B", "e", "a", "r", "e", "r", " ", " ", "a">>,
      <<"B", "e", "a", "r", "e", "r", "\t", "a">>,
      <<"B", "e", "a", "r", "e", "r">>,
      <<"B", "e", "a", "r", "e", "r", "a">>,
      <<"B", "a", "s", "i", "c", " ", "a">>,
      <<"x", "B", "e", "a", "r", "e", "r", " ", "a">>,
      <<"a">> }

AuthHeaders == {NoHeader} \cup {Header(v) : v \in AuthValues}

Methods == {"GET", "POST", "OPTIONS", "DELETE"}

Paths == {"/v1/chat/completions", "/v1/models", "/v1/other"}

Msg(role, content) == [role |-> JStr(role), content |-> JStr(content)]

Body(model, messages, temperature, max_tokens, stream) ==
    [t |-> "object", model |-> model, messages |-> messages,
     temperature |-> temperature, max_tokens |-> max_tokens, stream |-> stream]

HelloMessages == JArr(<<Msg(Str_system, <<"b", "e", " ", "k", "i", "n", "d">>),
                        Msg(Str_user, <<"h", "i">>)>>)

NoBody == [t |-> "invalid"]

ChatBodies ==
    { NoBody,
      [t |-> "null"],
      Body(JStr(<<"@cf/chat-model">>), HelloMessages, JUndefined, JUndefined, JUndefined),
      Body(JStr(<<"@cf/chat-model">>), HelloMessages, JNum(0), JNum(5120), JBool(FALSE)),
      Body(JStr(<<"@cf/chat-model">>), HelloMessages, JNum(20), JUndefined, JBool(TRUE)),
      Body(JStr(<<"@cf/chat-model">>), HelloMessages, JNum(30), JUndefined, JUndefined),
      Body(JStr(<<"@cf/chat-model">>), JArr(<<>>), JUndefined, JUndefined, JUndefined),
      Body(JUndefined, HelloMessages, JUndefined, JUndefined, JBool(TRUE)),
      Body(JStr(<<"gpt-4">>), HelloMessages, JUndefined, JUndefined, JUndefined),
      Body(JStr(<<"gpt-4">>), HelloMessages, JUndefined, JUndefined, JBool(TRUE)),
      Body(JStr(<<"@cf/embedding-model">>), HelloMessages, JUndefined, JUndefined, JUndefined) }

\* a request: method, url.pathname, the Authorization header and the body text
Requests ==
    { [method |-> m, path |-> p, auth |-> h, body |-> NoBody] :
          m \in Methods, p \in Paths, h \in AuthHeaders }
    \cup { [method |-> "POST", path |-> "/v1/chat/completions", auth |-> h, body |-> b] :
          h \in AuthHeaders, b \in ChatBodies }

\* what ai.run does when called without stream
AIText == [kind |-> "text", text |-> <<"h", "e", "l", "l", "o">>]

AIOutcomes ==
    { AIText, [kind |-> "text", text |-> <<>>], [kind |-> "null", text |-> <<>>],
      [kind |-> "throws", text |-> <<>>] }

\* the store operation that throws during a request, if any
Faults == {"none", "keysGet", "rlGet", "rlPut"}

EmptyObject == [permissions |-> "read-write"]

\* API_KEYS as an operator may have left it
KeyStores ==
    { <<>>, (Str_apikey :> EmptyObject), (<<"a">> :> EmptyObject) }

\* RATE_LIMIT_KV as earlier requests may have left it: the last request at time
\* 0, in a window that began at time 0 or one second before
SeededStores ==
    { <<>> }
    \cup { KVPut(<<>>, RateLimitKey(<<"a">>),
                 StringifyData([count |-> c, timestamp |-> 0]), 0, WINDOW_SIZE) :
             c \in {RATE_LIMIT - 1, RATE_LIMIT} }
    \cup { KVPut(<<>>, RateLimitKey(<<"a">>),
                 StringifyData([count |-> RATE_LIMIT, timestamp |-> -1]), 0, WINDOW_SIZE) }

\* the store operation drawn to throw was attempted, and threw
FaultFired(r) == r.response.status = 500 /\ r.stage \in {"auth", "limiter"}

\* the ai.run outcome drawn was awaited by the engine (the call without stream)
AIConsumed(r) == r.upstream # <<>> /\ ~r.upstream[1].stream

Init ==
    /\ StreamIdle
    /\ RaceIdle
    /\ kv \in SeededStores
    /\ apiKeys \in KeyStores
    /\ now = 0
    /\ ticks = 0
    /\ calls = 0
    /\ last = NoExchange
    /\ win = <<>>

\* the clock advances between requests
Clock ==
    /\ last = NoExchange
    /\ Tick

\* one request through the worker's fetch, from arrival to the returned response
Fetch ==
    /\ last = NoExchange
    /\ calls < MaxRequests
    /\ \E req \in Requests, fault \in Faults :
        LET r0 == fetch(req, kv, apiKeys, now, fault, AIText)
        IN  /\ fault # "none" => FaultFired(r0)
            /\ \E ai \in (IF AIConsumed(r0) THEN AIOutcomes ELSE {AIText}) :
                LET r == IF ai = AIText THEN r0
                         ELSE fetch(req, kv, apiKeys, now, fault, ai)
                IN  /\ kv' = r.store
                    /\ last' = [kind |-> "fetch", req |-> req, fault |-> fault, ai |-> ai,
                                at |-> now, before |-> kv, keys |-> apiKeys, out |-> r]
    /\ calls' = calls + 1
    /\ UNCHANGED <<apiKeys, now, ticks, win>>
    /\ UNCHANGED streamVars
    /\ UNCHANGED raceVars

\* the response has been handed to the client
Return ==
    /\ last # NoExchange
    /\ last' = NoExchange
    /\ UNCHANGED <<kv, apiKeys, now, ticks, calls, win>>
    /\ UNCHANGED streamVars
    /\ UNCHANGED raceVars

Next == Clock \/ Fetch \/ Return

Spec == Init /\ [][Next]_vars

----------------------------------------------------------------------------
(* Claims about the Authenticator and the Route Dispatcher                 *)

IsAuthError(response) ==
    /\ response.status = 401
    /\ response.body.kind = "error"
    /\ response.body.type = "authentication_error"

\* C7 as stated: every request without an Authorization header, whatever its
\* method and path, is answered 401 authentication_error.
C7_NoHeaderAlways401 ==
    (last.kind = "fetch" /\ ~last.req.auth.present) => IsAuthError(last.out.response)

\* C7 amended: every request without an Authorization header whose method is not
\* OPTIONS, whatever its path, is answered 401 authentication_error.
C7_NoHeader401UnlessOptions ==
    (last.kind = "fetch" /\ ~last.req.auth.present /\ last.req.method # "OPTIONS")
        => IsAuthError(last.out.response)

\* a DELETE on an unrouted path without the header was answered 401
C7_Witness ==
    /\ last.kind = "fetch"
    /\ ~last.req.auth.present
    /\ last.req.method = "DELETE"
    /\ last.req.path = "/v1/other"
    /\ IsAuthError(last.out.response)

\* the pattern "Bearer <token>", case-insensitive, token not empty: some split of
\* the value into the keyword, one or more blanks, and at least one more character
C8_IsBearerToken(v) ==
    /\ Len(v) >= 8
    /\ \A i \in 1..6 : Lower(v[i]) = Str_bearer[i]
    /\ \E i \in 7..(Len(v) - 1) : \A j \in 7..i : IsSpace(v[j])

\* the request went past the Authenticator
C8_Passed(x) == x.out.stage \in {"limiter", "route"} /\ x.out.auth.status = 0

\* C8: of the requests that reach the Authenticator with an Authorization value,
\* exactly those whose value matches Bearer <token> (any case, token not empty)
\* pass, unless the key-store read throws; every other value gets 401
\* authentication_error.
C8_PassIffBearerToken ==
    (last.kind = "fetch" /\ last.req.method # "OPTIONS" /\ last.req.auth.present) =>
        /\ C8_Passed(last) => C8_IsBearerToken(last.req.auth.value)
        /\ (C8_IsBearerToken(last.req.auth.value) /\ last.fault # "keysGet")
               => C8_Passed(last)
        /\ ~C8_IsBearerToken(last.req.auth.value) => IsAuthError(last.out.response)

\* a value with an upper-case keyword passed
C8_Witness ==
    /\ last.kind = "fetch"
    /\ last.req.auth = Header(<<"B", "E", "A", "R", "E", "R", " ", "a">>)
    /\ C8_Passed(last)

C10_IsNotFound(response) ==
    /\ response.status = 404
    /\ response.body.kind = "error"
    /\ response.body.type = "invalid_request_error"

-----------------------------------------------------------------------------
(* The streaming transcoder: ChatController.createChatCompletion, stream    *)
(* branch, reading the stream that AIService.generateChatCompletion relays. *)
(*                                                                          *)
(* Upstream bytes are one-character strings; "data:" and "[DONE]" and       *)
(* "null" stand for their ASCII bytes taken together; "C3" "A9" are the two *)
(* bytes of one non-ASCII character, written "E9" once decoded.  "{" f "}"  *)
(* stands for the JSON text of an object whose response field is f.         *)

MaxLines == 2

NL == "\n"
REPLACEMENT == "FFFD"

Str_data_ == <<"data:", " ">>
Str_DONE == <<"[DONE]">>

\* new TextDecoder().decode(value): each call decodes its bytes on their own, so
\* a byte of a character whose other byte is not in the same value becomes U+FFFD
RECURSIVE DecodeFrom(_, _)
DecodeFrom(b, i) ==
    IF i > Len(b) THEN <<>>
    ELSE IF b[i] = "C3"
         THEN IF i < Len(b) /\ b[i + 1] = "A9"
              THEN <<"E9">> \o DecodeFrom(b, i + 2)
              ELSE <<REPLACEMENT>> \o DecodeFrom(b, i + 1)
    ELSE IF b[i] = "A9" THEN <<REPLACEMENT>> \o DecodeFrom(b, i + 1)
    ELSE <<b[i]>> \o DecodeFrom(b, i + 1)

Decode(value) == DecodeFrom(value, 1)

StringChars == {"H", "i", "E9", REPLACEMENT}

\* JSON.parse(jsonStr) followed by the read of data.response
JSONParse(jsonStr) ==
    IF jsonStr = <<"null">>
    THEN [ok |-> TRUE, isNull |-> TRUE, response |-> <<>>]
    ELSE IF /\ Len(jsonStr) >= 2
            /\ jsonStr[1] = "{"
            /\ jsonStr[Len(jsonStr)] = "}"
            /\ \A i \in 2..(Len(jsonStr) - 1) : jsonStr[i] \in StringChars
         THEN [ok |-> TRUE, isNull |-> FALSE,
               response |-> SubSeq(jsonStr, 2, Len(jsonStr) - 1)]
    ELSE [ok |-> FALSE, isNull |-> FALSE, response |-> <<>>]

\* the events the transcoder writes
RoleChunk(id) == [kind |-> "role", id |-> id, content |-> <<>>]
ContentChunk(id, content) == [kind |-> "content", id |-> id, content |-> content]
TerminalChunk(id) == [kind |-> "terminal", id |-> id, content |-> <<>>]
DoneSentinel == [kind |-> "done", id |-> 0, content |-> <<>>]

\* controller.enqueue(item): throws unless the stream is readable
CanEnqueue(st) == st.outState = "readable"

Enqueue(st, item) == [st EXCEPT !.out = Append(st.out, item)]

\* the state the start loop works on
LoopState ==
    [buffer |-> buffer, sentRole |-> sentRole, out |-> out, outState |-> outState,
     nextId |-> nextId]

\* processChunk with the two enqueues in the other order
processChunk_ContentFirst(chunk, st) ==
    LET jsonStr == IF Len(chunk) >= 2 /\ SubSeq(chunk, 1, 2) = Str_data_
                   THEN SubSeq(chunk, 3, Len(chunk)) ELSE chunk
        data == JSONParse(jsonStr)
        chunkId == st.nextId + 1
        st1 == [st EXCEPT !.nextId = chunkId]
        st2 == IF data.response # <<>> /\ CanEnqueue(st1)
               THEN Enqueue(st1, ContentChunk(chunkId, data.response)) ELSE st1
    IN  IF jsonStr = <<>> \/ jsonStr = Str_DONE \/ ~data.ok THEN st
        ELSE IF st2.sentRole \/ ~CanEnqueue(st2) THEN st2
        ELSE [Enqueue(st2, RoleChunk(chunkId)) EXCEPT !.sentRole = TRUE]

\* processChunk writing the role chunk before it parses the line
processChunk_RoleBeforeParse(chunk, st) ==
    LET jsonStr == IF Len(chunk) >= 2 /\ SubSeq(chunk, 1, 2) = Str_data_
                   THEN SubSeq(chunk, 3, Len(chunk)) ELSE chunk
        data == JSONParse(jsonStr)
        chunkId == st.nextId + 1
        st1 == [st EXCEPT !.nextId = chunkId]
    IN  IF jsonStr = <<>> \/ jsonStr = Str_DONE THEN st
        ELSE IF ~st1.sentRole /\ ~CanEnqueue(st1) THEN st1
        ELSE LET st2 == IF st1.sentRole THEN st1
                        ELSE [Enqueue(st1, RoleChunk(chunkId)) EXCEPT !.sentRole = TRUE]
             IN  IF ~data.ok \/ data.isNull THEN st2
                 ELSE IF data.response = <<>> THEN st2
                 ELSE IF ~CanEnqueue(st2) THEN st2
                 ELSE Enqueue(st2, ContentChunk(chunkId, data.response))

\* processChunk(chunk): whatever it throws is caught and logged inside it
processChunk(chunk, st) ==
    LET jsonStr == IF Len(chunk) >= 2 /\ SubSeq(chunk, 1, 2) = Str_data_
                   THEN SubSeq(chunk, 3, Len(chunk)) ELSE chunk
        data == JSONParse(jsonStr)
        chunkId == st.nextId + 1
        st1 == [st EXCEPT !.nextId = chunkId]
    IN  IF jsonStr = <<>> \/ jsonStr = Str_DONE THEN st
        ELSE IF ~data.ok THEN st                      \* JSON.parse threw
        ELSE IF ~st1.sentRole /\ ~CanEnqueue(st1) THEN st1   \* enqueue threw
        ELSE LET st2 == IF st1.sentRole THEN st1
                        ELSE [Enqueue(st1, RoleChunk(chunkId)) EXCEPT !.sentRole = TRUE]
             IN  IF data.isNull THEN st2              \* data.response threw
                 ELSE IF data.response = <<>> THEN st2
                 ELSE IF ~CanEnqueue(st2) THEN st2    \* enqueue threw
                 ELSE Enqueue(st2, ContentChunk(chunkId, data.response))

\* while (buffer.includes('\n')): hand each non-empty line to processChunk
RECURSIVE DrainLines(_)
DrainLines(st) ==
    LET newlineIndex == IndexOf(st.buffer, <<NL>>)
        line == SubSeq(st.buffer, 1, newlineIndex - 1)
        st1 == [st EXCEPT !.buffer = SubSeq(st.buffer, newlineIndex + 1, Len(st.buffer))]
    IN  IF newlineIndex = 0 THEN st
        ELSE DrainLines(IF line # <<>> THEN processChunk(line, st1) ELSE st1)

\* one read that delivered value
OnValue(value, st) == DrainLines([st EXCEPT !.buffer = st.buffer \o Decode(value)])

\* the done branch that writes the terminal chunk twice
OnDone_TwoTerminals(st) ==
    LET st1 == IF st.buffer # <<>> THEN processChunk(st.buffer, st) ELSE st
        id == st1.nextId + 1
        st2 == [st1 EXCEPT !.nextId = id]
    IN  IF ~CanEnqueue(st2) THEN st2
        ELSE [Enqueue(Enqueue(Enqueue(st2, TerminalChunk(id)), TerminalChunk(id)),
                      DoneSentinel)
              EXCEPT !.outState = "closed"]

\* the done branch without controller.close()
OnDone_NeverCloses(st) ==
    LET st1 == IF st.buffer # <<>> THEN processChunk(st.buffer, st) ELSE st
        id == st1.nextId + 1
        st2 == [st1 EXCEPT !.nextId = id]
    IN  IF ~CanEnqueue(st2) THEN st2
        ELSE Enqueue(Enqueue(st2, TerminalChunk(id)), DoneSentinel)

\* the done branch: flush the buffer, write the terminal chunk and the sentinel,
\* close.  When the first enqueue throws, the outer catch calls controller.error,
\* which does nothing to a stream that is no longer readable.
OnDone(st) ==
    LET st1 == IF st.buffer # <<>> THEN processChunk(st.buffer, st) ELSE st
        id == st1.nextId + 1
        st2 == [st1 EXCEPT !.nextId = id]
    IN  IF ~CanEnqueue(st2) THEN st2
        ELSE [Enqueue(Enqueue(st2, TerminalChunk(id)), DoneSentinel)
              EXCEPT !.outState = "closed"]

-----------------------------------------------------------------------------
(* One streaming response: the upstream provider sends a script of lines,   *)
(* delivered in reads that cut the bytes anywhere; the client may cancel;   *)
(* the upstream call or a read may fail.                                    *)

\* the lines an upstream stream is made of: the bytes of the line, and the
\* response fragment the line carries (<<>> when it carries none)
Line(bytes, frag) == [bytes |-> bytes, frag |-> frag]

LineHi == Line(<<"data:", " ", "{", "H", "i", "}">>, <<"H", "i">>)
LineE9 == Line(<<"data:", " ", "{", "C3", "A9", "}">>, <<"E9">>)
LineRaw == Line(<<"{", "i", "}">>, <<"i">>)
LineBlank == Line(<<>>, <<>>)
LineDone == Line(<<"data:", " ", "[DONE]">>, <<>>)
LineNoResponse == Line(<<"data:", " ", "{", "}">>, <<>>)
LineNull == Line(<<"data:", " ", "null">>, <<>>)
LineTruncated == Line(<<"data:", " ", "{", "H">>, <<>>)

LineKinds ==
    {LineHi, LineE9, LineRaw, LineBlank, LineDone, LineNoResponse, LineNull, LineTruncated}

Scripts ==
    {[lines |-> <<>>, terminated |-> FALSE]} \cup
    {[lines |-> l, terminated |-> t] :
        l \in UNION {[1..n -> LineKinds] : n \in 1..MaxLines}, t \in BOOLEAN}

\* the bytes of a script: its lines, each ended by a newline, the last one only
\* when the script is terminated
RECURSIVE BytesFrom(_, _)
BytesFrom(sc, i) ==
    IF i > Len(sc.lines) THEN <<>>
    ELSE sc.lines[i].bytes
         \o (IF i < Len(sc.lines) \/ sc.terminated THEN <<NL>> ELSE <<>>)
         \o BytesFrom(sc, i + 1)

Bytes(sc) == BytesFrom(sc, 1)

PipelineIdle ==
    /\ RaceIdle
    /\ kv = <<>>
    /\ apiKeys = <<>>
    /\ now = 0
    /\ ticks = 0
    /\ calls = 0
    /\ last = NoExchange
    /\ win = <<>>

\* new ReadableStream({ start }): start runs at once, with the first read pending
InitStream ==
    /\ PipelineIdle
    /\ script \in Scripts
    /\ source = Bytes(script)
    /\ buffer = <<>>
    /\ sentRole = FALSE
    /\ out = <<>>
    /\ outState = "readable"
    /\ pc = "reading"
    /\ stop = ""
    /\ nextId = 0
    /\ lateReads = 0

Commit(st) ==
    /\ buffer' = st.buffer
    /\ sentRole' = st.sentRole
    /\ out' = st.out
    /\ outState' = st.outState
    /\ nextId' = st.nextId

\* reader.read() resolves with a value: decode, split, process, and read again
ReadValue ==
    /\ pc = "reading"
    /\ source # <<>>
    /\ \E k \in 1..Len(source) :
        /\ Commit(OnValue(SubSeq(source, 1, k), LoopState))
        /\ source' = SubSeq(source, k + 1, Len(source))
    /\ lateReads' = IF outState = "cancelled" THEN lateReads + 1 ELSE lateReads
    /\ UNCHANGED <<script, pc, stop>>
    /\ UNCHANGED pipeVars
    /\ UNCHANGED raceVars

\* reader.read() resolves with done
ReadDone ==
    /\ pc = "reading"
    /\ source = <<>>
    /\ Commit(OnDone(LoopState))
    /\ pc' = "stopped"
    /\ stop' = "exhausted"
    /\ UNCHANGED <<script, source, lateReads>>
    /\ UNCHANGED pipeVars
    /\ UNCHANGED raceVars

\* a failed read handled like exhaustion: flush, terminal chunk, [DONE], close
ReadFail_Finishes ==
    /\ pc = "reading"
    /\ Commit(OnDone(LoopState))
    /\ pc' = "stopped"
    /\ stop' = "failed"
    /\ UNCHANGED <<script, source, lateReads>>
    /\ UNCHANGED pipeVars
    /\ UNCHANGED raceVars

\* ai.run or a read of the upstream stream throws: the relay errors its stream,
\* reader.read() rejects, and the outer catch calls controller.error
ReadFail ==
    /\ pc = "reading"
    /\ outState' = IF outState = "readable" THEN "errored" ELSE outState
    /\ pc' = "stopped"
    /\ stop' = "failed"
    /\ UNCHANGED <<script, source, buffer, sentRole, out, nextId, lateReads>>
    /\ UNCHANGED pipeVars
    /\ UNCHANGED raceVars

\* the client cancels the response body; the stream has no cancel callback
Cancel ==
    /\ pc = "reading"
    /\ outState = "readable"
    /\ outState' = "cancelled"
    /\ UNCHANGED <<script, source, buffer, sentRole, out, pc, stop, nextId, lateReads>>
    /\ UNCHANGED pipeVars
    /\ UNCHANGED raceVars

NextStream == ReadValue \/ ReadDone \/ ReadFail \/ Cancel

SpecStream == InitStream /\ [][NextStream]_vars

-----------------------------------------------------------------------------
(* Claims about the transcoder                                              *)

Kinds(items) == [i \in 1..Len(items) |-> items[i].kind]

IsContent(item) == item.kind = "content"

Contents(items) ==
    LET c == SelectSeq(items, IsContent) IN [i \in 1..Len(c) |-> c[i].content]

CarriesFragment(line) == line.frag # <<>>

\* the fragments the script carries, in the order it sends them
Fragments(sc) ==
    LET f == SelectSeq(sc.lines, CarriesFragment) IN [i \in 1..Len(f) |-> f[i].frag]

Count(items, kind) == Cardinality({i \in 1..Len(items) : items[i].kind = kind})

\* what a fragment can decode to when a read ends inside one of its characters
Mangled(frag) == IF frag = <<"E9">> THEN <<REPLACEMENT, REPLACEMENT>> ELSE frag

\* C2: content chunks come out in the order their fragments arrive from the
\* upstream stream; no content chunk comes before the role chunk; the terminal
\* chunk and [DONE] come after every content chunk, [DONE] directly after the
\* terminal chunk, and nothing is emitted after [DONE]; a response that was
\* closed ends with these two.
C2_EmissionOrder ==
    /\ LET c == Contents(out)
           f == Fragments(script)
       IN  /\ Len(c) <= Len(f)
           /\ \A i \in 1..Len(c) : c[i] \in {f[i], Mangled(f[i])}
    /\ \A i \in 1..Len(out) :
          /\ out[i].kind = "content" => \E j \in 1..(i - 1) : out[j].kind = "role"
          /\ out[i].kind = "done" =>
                i = Len(out) /\ i > 1 /\ out[i - 1].kind = "terminal"
          /\ out[i].kind = "terminal" => i = Len(out) - 1
    /\ outState = "closed" => Len(out) >= 2 /\ out[Len(out)].kind = "done"

C2_Witness ==
    /\ outState = "closed"
    /\ Kinds(out) = <<"role", "content", "content", "terminal", "done">>
    /\ Contents(out) = <<<<"H", "i">>, <<"i">>>>

\* C3: the first chunk of a streaming response is a role chunk.
C3_FirstChunkIsRole ==
    out # <<>> => out[1].kind = "role" /\ out[1].content = <<>>

\* every line of the script carries a fragment or is empty, and one at least
\* carries a fragment
FragmentLinesOnly(sc) ==
    /\ \A i \in 1..Len(sc.lines) : CarriesFragment(sc.lines[i]) \/ sc.lines[i] = LineBlank
    /\ \E i \in 1..Len(sc.lines) : CarriesFragment(sc.lines[i])

\* C4: for upstream lines that each carry a non-empty fragment, with empty lines
\* between them, followed by the end of the stream, the output is one role
\* chunk, the content chunks of the fragments in order, one terminal chunk and
\* [DONE]; the role chunk is never emitted twice.
C4_ExactOutput ==
    /\ Count(out, "role") <= 1
    /\ (outState = "closed" /\ FragmentLinesOnly(script)) =>
          /\ Kinds(out) = <<"role">> \o [i \in 1..Len(Fragments(script)) |-> "content"]
                          \o <<"terminal", "done">>
          /\ Contents(out) = Fragments(script)

\* C5: when the upstream stream is exhausted, and the client has not cancelled,
\* the response holds exactly one terminal chunk followed by exactly one [DONE]
\* as its last two items and is closed; no response ever holds two terminal
\* chunks or two [DONE].
C5_OneTerminalOneDone ==
    /\ Count(out, "terminal") <= 1
    /\ Count(out, "done") <= 1
    /\ (stop = "exhausted" /\ outState # "cancelled") =>
          /\ outState = "closed"
          /\ Count(out, "terminal") = 1
          /\ Count(out, "done") = 1
          /\ Len(out) >= 2
          /\ out[Len(out) - 1].kind = "terminal"
          /\ out[Len(out)].kind = "done"

C5_Witness ==
    /\ stop = "exhausted"
    /\ outState = "closed"
    /\ ~script.terminated
    /\ script.lines = <<LineBlank, LineHi>>
    /\ Kinds(out) = <<"role", "content", "terminal", "done">>

\* C6: once the client has cancelled, the transcoder starts no further read of
\* the upstream stream.
C6_NoReadAfterCancel == lateReads = 0

-----------------------------------------------------------------------------
(* Claims about the pipeline as a whole                                     *)

\* C11: an OPTIONS request, whatever its path and Authorization header, is
\* answered with the CORS preflight response; neither gate runs: the key store
\* and the rate-limit store are not read, nothing is written, the rate-limit
\* store is as it was, and the upstream is not called.
C11_PreflightBypassesGates ==
    (last.kind = "fetch" /\ last.req.method = "OPTIONS") =>
        /\ last.out.stage = "preflight"
        /\ last.out.response.status = 200
        /\ last.out.response.body.kind = "empty"
        /\ "Access-Control-Allow-Origin" \in DOMAIN last.out.response.headers
        /\ last.out.keyReads = 0
        /\ last.out.reads = 0
        /\ last.out.writes = 0
        /\ last.out.store = last.before
        /\ last.out.upstream = <<>>

\* OPTIONS on the chat path with a bearer token whose quota is used up
C11_Witness ==
    /\ last.kind = "fetch"
    /\ last.req.method = "OPTIONS"
    /\ last.req.path = "/v1/chat/completions"
    /\ last.req.auth = MainHeader
    /\ RateLimitKey(<<"a">>) \in DOMAIN last.before
    /\ ParseData(last.before[RateLimitKey(<<"a">>)].value).count = RATE_LIMIT
    /\ last.out.response.status = 200

HardeningHeaders ==
    {"Strict-Transport-Security", "X-Content-Type-Options", "X-Frame-Options",
     "X-XSS-Protection", "Referrer-Policy", "Content-Security-Policy",
     "Permissions-Policy"}

\* C12: every response fetch returns carries the seven hardening headers, with
\* nosniff and DENY for X-Content-Type-Options and X-Frame-Options.
C12_HardeningHeadersAlways ==
    last.kind = "fetch" =>
        /\ HardeningHeaders \subseteq DOMAIN last.out.response.headers
        /\ last.out.response.headers["X-Content-Type-Options"] = "nosniff"
        /\ last.out.response.headers["X-Frame-Options"] = "DENY"

\* the 404 of an unrouted request, which only fetch itself hardens
C12_Witness ==
    /\ last.kind = "fetch"
    /\ last.out.stage = "route"
    /\ last.out.response.status = 404
    /\ HardeningHeaders \subseteq DOMAIN last.out.response.headers

\* the response carries the three quota headers with the values of info
CarriesQuota(response, info) ==
    /\ {"X-RateLimit-Limit", "X-RateLimit-Remaining", "X-RateLimit-Reset"}
           \subseteq DOMAIN response.headers
    /\ response.headers["X-RateLimit-Limit"] = ToString(info.total)
    /\ response.headers["X-RateLimit-Remaining"] = ToString(info.remaining)
    /\ response.headers["X-RateLimit-Reset"] = ToString(info.reset)

\* C13: every 200 response to a request the Rate Limiter allowed (chat
\* completion, streaming or not, and model list) carries X-RateLimit-Limit,
\* X-RateLimit-Remaining and X-RateLimit-Reset with the values the limiter
\* returned for the request.
C13_QuotaHeadersOnSuccess ==
    (last.kind = "fetch" /\ last.out.allowed /\ last.out.response.status = 200) =>
        CarriesQuota(last.out.response, last.out.info)

\* the request reached the chat controller with a body the validator accepts
ReachedEngine(x) ==
    /\ x.out.stage = "route"
    /\ x.out.route = "chat"
    /\ x.req.body.t = "object"
    /\ ~validateRequestBody(x.req.body).isError

InRegistry(id) == \E i \in 1..Len(modelsData) : modelsData[i].id = id

\* C14: a chat request whose model id is not in the registry is answered 500
\* server_error with the message "Model <id> not found", with stream true and
\* stream false alike, and ai.run is not called for it.
C14_UnknownModel ==
    (last.kind = "fetch" /\ ReachedEngine(last) /\ ~InRegistry(last.req.body.model.v)) =>
        /\ last.out.response.status = 500
        /\ last.out.response.body.kind = "error"
        /\ last.out.response.body.type = "server_error"
        /\ last.out.response.body.message = <<"Model ", last.req.body.model.v, " not found">>
        /\ last.out.upstream = <<>>

\* a streaming request for gpt-4 was answered 500
C14_Witness ==
    /\ last.kind = "fetch"
    /\ ReachedEngine(last)
    /\ last.req.body.model.v = <<"gpt-4">>
    /\ Truthy(last.req.body.stream)
    /\ last.out.response.status = 500

-----------------------------------------------------------------------------
(* Usage specification: the non-streaming branch of createChatCompletion    *)
(* applied to prompts and completions of chosen lengths                     *)

MaxMessages == 2

ContentLengths == {1, 2, 3, 4, 5, 7, 8, 33, 40}

CompletionLengths == {1, 4, 5, 80}

\* a string of n characters
Text(n) == [i \in 1..n |-> "x"]

\* a valid non-streaming request body whose messages have the given lengths
UsageBody(lens) ==
    Body(JStr(modelsData[1].id),
         JArr([i \in 1..Len(lens) |-> Msg(Str_user, Text(lens[i]))]),
         JUndefined, JUndefined, JUndefined)

InitUsage ==
    /\ PipelineIdle
    /\ StreamIdle

\* one non-streaming completion, from request.json() to the returned response
Complete ==
    /\ last = NoExchange
    /\ \E n \in 1..MaxMessages :
       \E lens \in [1..n -> ContentLengths], c \in CompletionLengths :
        LET r == createChatCompletion(UsageBody(lens), RateLimitInfoOf([count |-> 1, timestamp |-> now]),
                                      [kind |-> "text", text |-> Text(c)])
        IN  last' = [kind |-> "usage", lens |-> lens, completion |-> c,
                     response |-> r.response]
    /\ UNCHANGED <<kv, apiKeys, now, ticks, calls, win>>
    /\ UNCHANGED streamVars
    /\ UNCHANGED raceVars

NextUsage == Complete \/ Return

SpecUsage == InitUsage /\ [][NextUsage]_vars

RECURSIVE Sum(_)
Sum(ns) == IF ns = <<>> THEN 0 ELSE ns[1] + Sum(Tail(ns))

\* the least k with 4 * k >= n
CeilQuarter(n) == CHOOSE k \in 0..n : 4 * k >= n /\ 4 * (k - 1) < n

\* C15 as stated: prompt_tokens is ceil(P / 4) for the total P of the prompt
\* messages' lengths, however P is spread over the messages; completion_tokens
\* is ceil(C / 4); total_tokens is their sum.
C15_PromptTokensOfTotal ==
    last.kind = "usage" =>
        LET usage == last.response.body.usage
        IN  /\ usage.prompt_tokens = CeilQuarter(Sum(last.lens))
            /\ usage.completion_tokens = CeilQuarter(last.completion)
            /\ usage.total_tokens = usage.prompt_tokens + usage.completion_tokens

\* C15 amended: prompt_tokens is the sum over the prompt messages of
\* ceil(length / 4) (so 10 for one message of 40 characters), completion_tokens
\* is ceil(C / 4), total_tokens is their sum.
C15_PromptTokensPerMessage ==
    last.kind = "usage" =>
        LET usage == last.response.body.usage
        IN  /\ last.response.status = 200
            /\ usage.prompt_tokens
                  = Sum([i \in 1..Len(last.lens) |-> CeilQuarter(last.lens[i])])
            /\ usage.completion_tokens = CeilQuarter(last.completion)
            /\ usage.total_tokens = usage.prompt_tokens + usage.completion_tokens
            /\ (last.lens = <<40>> /\ last.completion = 80) =>
                  /\ usage.prompt_tokens = 10
                  /\ usage.completion_tokens = 20
                  /\ usage.total_tokens = 30

\* 40 prompt characters spread as 7 + 33 with a completion of 80: 11, 20, 31
C15_Witness ==
    /\ last.kind = "usage"
    /\ last.lens = <<7, 33>>
    /\ last.completion = 80
    /\ last.response.body.usage.prompt_tokens = 11
    /\ last.response.body.usage.total_tokens = 31

-----------------------------------------------------------------------------
(* Claims about the pipeline as a whole, continued                          *)

\* C16: ai.run is called only for a request that passed the Authenticator, was
\* allowed by the Rate Limiter, is POST /v1/chat/completions and has a body the
\* Request Validator accepts; a request answered 401, 429, 404 or 400, or by the
\* preflight, causes no call.
C16_UpstreamOnlyPastGates ==
    last.kind = "fetch" =>
        /\ last.out.upstream # <<>> =>
              /\ last.req.method = "POST"
              /\ last.req.path = "/v1/chat/completions"
              /\ last.req.auth.present
              /\ C8_IsBearerToken(last.req.auth.value)
              /\ last.out.auth.status = 0
              /\ last.out.allowed
              /\ last.req.body.t = "object"
              /\ ~validateRequestBody(last.req.body).isError
              /\ Len(last.out.upstream) = 1
        /\ last.out.response.status \in {400, 401, 404, 429} => last.out.upstream = <<>>
        /\ last.out.stage # "route" => last.out.upstream = <<>>

\* a streaming chat request that took the last unit of quota reached ai.run
C16_Witness ==
    /\ last.kind = "fetch"
    /\ last.out.upstream # <<>>
    /\ last.out.upstream[1].stream
    /\ last.out.allowed
    /\ last.out.info.remaining = 0

-----------------------------------------------------------------------------
(* Race specification: concurrent calls of checkRateLimit.  A call is       *)
(* suspended at `await RATE_LIMIT_KV.get` and at `await RATE_LIMIT_KV.put`; *)
(* other calls run in between.                                              *)

MaxProcs == 2

Procs == 1..MaxProcs

IdleCall ==
    [pc |-> "idle", key |-> <<>>, t |-> 0, seen |-> 0, data |-> [count |-> 0, timestamp |-> 0],
     allowed |-> FALSE]

\* data.count++ with one count too many
Incremented_Twice(data) == [data EXCEPT !.count = data.count + 2]

\* data.count++
Incremented(data) == [data EXCEPT !.count = data.count + 1]

\* the count of each stored record: what sequential requests left behind
CountsOf(store) == [k \in DOMAIN store |-> ParseData(store[k].value).count]

InitRace ==
    /\ StreamIdle
    /\ kv \in SeededStores
    /\ apiKeys = <<>>
    /\ now = 0
    /\ ticks = 0
    /\ calls = 0
    /\ last = NoExchange
    /\ win = <<>>
    /\ inflight = [p \in Procs |-> IdleCall]
    /\ admitted = CountsOf(kv)

\* lines 14-27: the credential, the time, and the get is started
Begin(p) ==
    /\ inflight[p].pc = "idle"
    /\ \E h \in WindowHeaders :
        inflight' = [inflight EXCEPT ![p] =
            [IdleCall EXCEPT !.pc = "get",
                             !.key = RateLimitKey(RateLimitApiKey(h).value),
                             !.t = now]]
    /\ UNCHANGED admitted
    /\ UNCHANGED pipeVars
    /\ UNCHANGED streamVars

\* lines 27-57: the get resolves; reset or keep the record, reject or count and
\* start the put
GetReturns(p) ==
    /\ inflight[p].pc = "get"
    /\ LET c == inflight[p]
           data == CurrentData(KVGet(kv, c.key, now), c.t)
       IN  inflight' = [inflight EXCEPT ![p] =
               IF LimitExceeded(data)
               THEN [c EXCEPT !.pc = "done", !.seen = data.count, !.data = data,
                              !.allowed = FALSE]
               ELSE [c EXCEPT !.pc = "put", !.seen = data.count,
                              !.data = Incremented(data)]]
    /\ UNCHANGED admitted
    /\ UNCHANGED pipeVars
    /\ UNCHANGED streamVars

\* lines 57-65: the put resolves and the RateLimitInfo is returned
PutReturns(p) ==
    /\ inflight[p].pc = "put"
    /\ LET c == inflight[p]
       IN  /\ kv' = KVPut(kv, c.key, StringifyData(c.data), now, WINDOW_SIZE)
           /\ inflight' = [inflight EXCEPT ![p] = [c EXCEPT !.pc = "done", !.allowed = TRUE]]
           /\ admitted' = IF c.key \in DOMAIN admitted
                          THEN [admitted EXCEPT ![c.key] = admitted[c.key] + 1]
                          ELSE (c.key :> 1) @@ admitted
    /\ UNCHANGED <<apiKeys, now, ticks, calls, last, win>>
    /\ UNCHANGED streamVars

NextRace == \E p \in Procs : Begin(p) \/ GetReturns(p) \/ PutReturns(p)

SpecRace == InitRace /\ [][NextRace]_vars

StoredCount(k) == IF k \in DOMAIN kv THEN ParseData(kv[k].value).count ELSE 0

AdmittedCount(k) == IF k \in DOMAIN admitted THEN admitted[k] ELSE 0

AllDone == \A p \in Procs : inflight[p].pc = "done"

\* C17: a call is allowed exactly when the count it read is below the limit,
\* whatever other calls did meanwhile; so two calls for one credential that
\* read the same count below the limit are both allowed, and once all calls
\* have returned the stored count is below the number of requests allowed in
\* the window; the stored count never exceeds that number.
C17_StaleReadsBothPass ==
    /\ \A p \in Procs :
          inflight[p].pc = "done" => (inflight[p].allowed <=> inflight[p].seen < RATE_LIMIT)
    /\ \A p, q \in Procs :
          (/\ p # q
           /\ inflight[p].pc = "done" /\ inflight[q].pc = "done"
           /\ inflight[p].key = inflight[q].key
           /\ inflight[p].seen = inflight[q].seen
           /\ inflight[p].seen < RATE_LIMIT) =>
              /\ inflight[p].allowed /\ inflight[q].allowed
              /\ AllDone => StoredCount(inflight[p].key) < AdmittedCount(inflight[p].key)
    /\ \A p \in Procs : StoredCount(inflight[p].key) <= AdmittedCount(inflight[p].key)

\* two calls both read RATE_LIMIT - 1: RATE_LIMIT + 1 requests are allowed in the
\* window and the record says RATE_LIMIT
C17_Witness ==
    /\ AllDone
    /\ \E p, q \in Procs :
          /\ p # q
          /\ inflight[p].key = inflight[q].key
          /\ inflight[p].seen = RATE_LIMIT - 1
          /\ inflight[q].seen = RATE_LIMIT - 1
          /\ inflight[p].allowed /\ inflight[q].allowed
          /\ AdmittedCount(inflight[p].key) = RATE_LIMIT + 1
          /\ StoredCount(inflight[p].key) = RATE_LIMIT

-----------------------------------------------------------------------------
(* Claims about the two gates together and about the window                 *)

\* C18: for every Authorization value the Authenticator accepts, the credential
\* the Rate Limiter derives from the header is the token the Authenticator
\* extracted, and an allowed request is counted in the record of that token.
C18_SameCredential ==
    (last.kind = "fetch" /\ C8_Passed(last)) =>
        LET token == BearerMatch(last.req.auth.value).token
        IN  /\ RateLimitApiKey(last.req.auth).value = token
            /\ last.out.allowed => RateLimitKey(token) \in DOMAIN last.out.store

\* the request was handled by the Rate Limiter with no store operation failing
LimiterRan(x) == x.out.stage \in {"limiter", "route"} /\ x.fault = "none"

\* the rate-limit key of the request, and the record stored under it before
KeyOf(x) == RateLimitKey(RateLimitApiKey(x.req.auth).value)

RecordBefore(x) == KVGet(x.before, KeyOf(x), x.at)

\* the stored record is absent (never written, or expired) or a window old
AbsentOrElapsed(x) ==
    \/ RecordBefore(x).isNull
    \/ x.at - ParseData(RecordBefore(x).value).timestamp >= WINDOW_SIZE

\* C19: a request whose record is absent, or has now - windowStart >= window
\* size, is allowed even when the stored count had reached the limit, and the
\* record becomes {count: 1, windowStart: now}; a request whose record is
\* younger than the window leaves windowStart as it was.
C19_WindowReset ==
    (last.kind = "fetch" /\ LimiterRan(last)) =>
        LET k == KeyOf(last)
        IN  /\ AbsentOrElapsed(last) =>
                  /\ last.out.allowed
                  /\ k \in DOMAIN last.out.store
                  /\ ParseData(last.out.store[k].value) = [count |-> 1, timestamp |-> last.at]
            /\ ~AbsentOrElapsed(last) =>
                  /\ k \in DOMAIN last.out.store
                  /\ ParseData(last.out.store[k].value).timestamp
                         = ParseData(RecordBefore(last).value).timestamp

\* a record still stored with count RATE_LIMIT, exactly one window old: allowed
C19_Witness ==
    /\ last.kind = "fetch"
    /\ LimiterRan(last)
    /\ ~RecordBefore(last).isNull
    /\ ParseData(RecordBefore(last).value).count = RATE_LIMIT
    /\ last.at - ParseData(RecordBefore(last).value).timestamp = WINDOW_SIZE
    /\ last.out.allowed
    /\ ParseData(last.out.store[KeyOf(last)].value) = [count |-> 1, timestamp |-> last.at]

\* C20: a call of the Rate Limiter that rejects the request for exceeding the
\* limit leaves the rate-limit store as it was: the record's count, its
\* windowStart and its expiry are the same after the rejection, the first time
\* and every time after.
C20_RejectionWritesNothing ==
    [][(/\ calls' = calls + 1
        /\ last'.kind = "limiter"
        /\ last'.response.status = 429) => kv' = kv]_vars

\* the second rejected request of a window, after the clock has moved: the
\* record still says RATE_LIMIT requests since time 0, expiring one window after
\* the last allowed request
C20_Witness ==
    /\ last.kind = "limiter"
    /\ last.n = RATE_LIMIT + 2
    /\ last.response.status = 429
    /\ last.at > 0
    /\ ParseData(kv[last.key].value) = [count |-> RATE_LIMIT, timestamp |-> 0]
    /\ kv[last.key].exp < last.at + WINDOW_SIZE

-----------------------------------------------------------------------------
(* Race specification with a clock: the time moves between the steps of     *)
(* concurrent checkRateLimit calls                                          *)

NextRaceClock == NextRace \/ Tick

SpecRaceClock == InitRace /\ [][NextRaceClock]_vars

\* C21: whatever the interleaving of concurrent calls and of the clock, every
\* record in the rate-limit store has a count between 1 and RATE_LIMIT.
C21_StoredCountWithinLimit ==
    \A k \in DOMAIN kv :
        /\ ParseData(kv[k].value).count >= 1
        /\ ParseData(kv[k].value).count <= RATE_LIMIT

\* after the clock moved, two calls that both read RATE_LIMIT - 1 have both
\* written their record: it says RATE_LIMIT
C21_Witness ==
    /\ now > 0
    /\ \E p, q \in Procs :
          /\ p # q
          /\ inflight[p].pc = "done" /\ inflight[q].pc = "done"
          /\ inflight[p].key = inflight[q].key
          /\ inflight[p].allowed /\ inflight[q].allowed
          /\ inflight[p].seen = RATE_LIMIT - 1
          /\ inflight[q].seen = RATE_LIMIT - 1
          /\ StoredCount(inflight[p].key) = RATE_LIMIT

-----------------------------------------------------------------------------
(* Claims about what the Rate Limiter exposes                               *)

\* C22: the reset value of every answer of the Rate Limiter, the RateLimitInfo
\* of an allowed request and the X-RateLimit-Reset header of a rejected one, is
\* the windowStart of the record the decision was made on plus the window size,
\* and is later than the time the request was evaluated at; that windowStart is
\* the start of the fixed window the request falls in.
C22_ResetIsWindowEnd ==
    last.kind = "limiter" =>
        LET windowStart == ParseData(kv[last.key].value).timestamp
        IN  /\ last.key \in DOMAIN kv
            /\ windowStart = win[last.key].start
            /\ windowStart + WINDOW_SIZE > last.at
            /\ last.allowed => last.info.reset = windowStart + WINDOW_SIZE
            /\ ~last.allowed =>
                  /\ "X-RateLimit-Reset" \in DOMAIN last.response.headers
                  /\ last.response.headers["X-RateLimit-Reset"]
                         = ToString(windowStart + WINDOW_SIZE)

\* a request rejected one second before its window ends is told the window's end
C22_Witness ==
    /\ last.kind = "limiter"
    /\ ~last.allowed
    /\ last.at = WINDOW_SIZE - 1
    /\ last.response.headers["X-RateLimit-Reset"] = ToString(WINDOW_SIZE)

-----------------------------------------------------------------------------
(* The Rate Limiter called on its own, with any Authorization header        *)

\* the store operation drawn to throw was started by the call
LimiterFaultFired(r) == r.response # NoResponse /\ r.response.status = 500

InitLimiter ==
    /\ StreamIdle
    /\ RaceIdle
    /\ kv \in SeededStores
    /\ apiKeys = <<>>
    /\ now = 0
    /\ ticks = 0
    /\ calls = 0
    /\ last = NoExchange
    /\ win = <<>>

\* one call of checkRateLimit with a request whose Authorization header the
\* Authenticator has not looked at
DirectCall ==
    /\ last = NoExchange
    /\ calls < MaxRequests
    /\ \E h \in AuthHeaders, fault \in {"none", "rlGet", "rlPut"} :
           LET r == checkRateLimit(h, kv, now, fault)
           IN  /\ fault # "none" => LimiterFaultFired(r)
               /\ kv' = r.store
               /\ last' = [kind |-> "direct", header |-> h, fault |-> fault, at |-> now,
                           before |-> kv, result |-> r]
    /\ calls' = calls + 1
    /\ UNCHANGED <<apiKeys, now, ticks, win>>
    /\ UNCHANGED streamVars
    /\ UNCHANGED raceVars

NextLimiter == Clock \/ DirectCall \/ Return

SpecLimiter == InitLimiter /\ [][NextLimiter]_vars

\* the request carries nothing a credential can be taken from: no Authorization
\* header, or an empty one
NoCredential(h) == ~h.present \/ h.value = <<>>

\* C23: a call of the Rate Limiter for a request from which no credential can be
\* derived returns status 429 with error type rate_limit_error, never an allow
\* decision, and starts neither a read nor a write of the rate-limit store,
\* which it leaves as it was
C23_NoCredentialRejected ==
    (last.kind = "direct" /\ NoCredential(last.header)) =>
        /\ ~last.result.allowed
        /\ last.result.response # NoResponse
        /\ last.result.response.status = 429
        /\ last.result.response.body.kind = "error"
        /\ last.result.response.body.type = "rate_limit_error"
        /\ last.result.reads = 0
        /\ last.result.writes = 0
        /\ kv = last.before

C23_Witness ==
    /\ last.kind = "direct"
    /\ last.header = NoHeader
    /\ last.before # <<>>
    /\ last.result.response.status = 429
    /\ last.result.reads = 0

-----------------------------------------------------------------------------
(* Order of the gates                                                       *)

\* the count the Rate Limiter holds for the request's key in the window the
\* request falls in, before the request
CountBefore(x) ==
    IF AbsentOrElapsed(x) THEN 0 ELSE ParseData(RecordBefore(x).value).count

\* the count stored under the request's key after the request
CountAfter(x) ==
    IF KeyOf(x) \in DOMAIN x.out.store
    THEN ParseData(x.out.store[KeyOf(x)].value).count
    ELSE 0

\* the request passed the Authenticator, was under the limit, and no store
\* operation failed
PassedUnderLimit(x) ==
    /\ x.req.method # "OPTIONS"
    /\ x.out.auth.status = 0
    /\ x.fault = "none"
    /\ CountBefore(x) < RATE_LIMIT

\* C24: for a request other than OPTIONS the gates run in the order
\* Authenticator, Rate Limiter, route match, controller: the store is touched
\* only once the Authenticator has passed, a route is matched only once the
\* Rate Limiter has allowed, and the engine is called only by the matched chat
\* controller; so a request that passes the Authenticator under the limit
\* raises the count of its key by one whatever the answer is, 404, 400 and 500
\* included.
C24_GateOrder ==
    (last.kind = "fetch" /\ last.req.method # "OPTIONS") =>
        /\ (last.out.reads > 0 \/ last.out.writes > 0 \/ last.out.store # last.before)
               => last.out.auth.status = 0
        /\ last.out.stage = "route" => (last.out.auth.status = 0 /\ last.out.allowed)
        /\ last.out.upstream # <<>> => (last.out.stage = "route" /\ last.out.route = "chat")
        /\ PassedUnderLimit(last) =>
               /\ last.out.allowed
               /\ last.out.stage = "route"
               /\ CountAfter(last) = CountBefore(last) + 1
               /\ kv = last.out.store

\* a counted request answered 404: the last one the window admits
C24_Witness ==
    /\ last.kind = "fetch"
    /\ PassedUnderLimit(last)
    /\ last.out.response.status = 404
    /\ CountBefore(last) = RATE_LIMIT - 1
    /\ CountAfter(last) = RATE_LIMIT

\* C25: a request the Authenticator rejects with 401 starts no read and no
\* write of the rate-limit store, and the store is afterwards what it was
\* before: no record of any key is created, counted up or re-dated.
C25_RejectedNotCounted ==
    (last.kind = "fetch" /\ last.out.response.status = 401) =>
        /\ last.out.stage = "auth"
        /\ last.out.reads = 0
        /\ last.out.writes = 0
        /\ last.out.store = last.before
        /\ kv = last.before

\* a 401 for a header the Rate Limiter would have taken a key from, while the
\* store holds a record
C25_Witness ==
    /\ last.kind = "fetch"
    /\ last.out.response.status = 401
    /\ last.req.auth.present
    /\ last.req.auth.value # <<>>
    /\ last.before # <<>>
    /\ kv = last.before

-----------------------------------------------------------------------------
(* Requests during which one store operation throws if it is started        *)

\* the requests of the pipeline whose body is unreadable, or valid with and
\* without stream
FaultRequests ==
    { req \in Requests :
        req.body \in
            { NoBody,
              Body(JStr(<<"@cf/chat-model">>), HelloMessages, JUndefined, JUndefined, JUndefined),
              Body(JStr(<<"@cf/chat-model">>), HelloMessages, JNum(20), JUndefined, JBool(TRUE)) } }

\* one request through the worker's fetch while one operation of a store is set
\* to throw: the read of API_KEYS, the read of RATE_LIMIT_KV or the write to it
FaultyFetch ==
    /\ last = NoExchange
    /\ calls < MaxRequests
    /\ \E req \in FaultRequests, fault \in Faults \ {"none"} :
        LET r == fetch(req, kv, apiKeys, now, fault, AIText)
        IN  /\ kv' = r.store
            /\ last' = [kind |-> "fetch", req |-> req, fault |-> fault, ai |-> AIText,
                        at |-> now, before |-> kv, keys |-> apiKeys, out |-> r]
    /\ calls' = calls + 1
    /\ UNCHANGED <<apiKeys, now, ticks, win>>
    /\ UNCHANGED streamVars
    /\ UNCHANGED raceVars

NextFaults == Clock \/ FaultyFetch \/ Return

SpecFaults == Init /\ [][NextFaults]_vars

\* the operation set to throw was started by the request, so it threw
StoreFailed(x) ==
    \/ x.fault = "keysGet" /\ x.out.keyReads >= 1
    \/ x.fault = "rlGet" /\ x.out.reads >= 1
    \/ x.fault = "rlPut" /\ x.out.writes >= 1

\* C26: when the Authenticator's read of the key store, or the Rate Limiter's
\* read or write of the rate-limit store, throws, the request is answered with
\* status 500 and error type server_error by that gate: no route is matched and
\* no controller or engine call is made.
C26_FailClosed ==
    (last.kind = "fetch" /\ StoreFailed(last)) =>
        /\ last.out.response.status = 500
        /\ last.out.response.body.kind = "error"
        /\ last.out.response.body.type = "server_error"
        /\ last.out.stage \in {"auth", "limiter"}
        /\ last.out.route = "none"
        /\ last.out.upstream = <<>>
        /\ last.fault # "rlPut" => kv = last.before

\* the write of the counted record throws for a request to the chat route
C26_Witness ==
    /\ last.kind = "fetch"
    /\ last.fault = "rlPut"
    /\ StoreFailed(last)
    /\ IsChatRoute(last.req)
    /\ last.out.response.status = 500
    /\ last.out.stage = "limiter"

-----------------------------------------------------------------------------
(* The Request Validator applied to decoded request bodies                  *)

\* values a client may send in the fields of a message
MessageRoles == {JStr(Str_user), JStr(<<"b", "o", "g", "u", "s">>), JUndefined}

\* content: a string, the empty string, the array ["h", "i"], or none
MessageContents == {JStr(<<"h", "i">>), JStr(<<>>), JArr(<<"h", "i">>), JUndefined}

Messages == {[role |-> r, content |-> c] : r \in MessageRoles, c \in MessageContents}

\* body.messages: absent, not an array, or an array of up to MaxMessages messages
MessageLists ==
    {JUndefined, JNull}
    \cup {JArr(a) : a \in UNION {[1..n -> Messages] : n \in 0..MaxMessages}}

\* the other fields of a decoded request body: absent, well-formed, or
\* ill-formed
ModelValues == {JUndefined, JStr(<<>>), JStr(<<"m">>)}

TemperatureValues == {JUndefined, JNum(0), JNum(20), JNum(30), JNull}

MaxTokensValues == {JUndefined, JNum(10), JNum(0), JNum(5), JNull}

StreamValues == {JUndefined, JBool(TRUE), JNull}

InitValidate ==
    /\ PipelineIdle
    /\ StreamIdle

\* validateRequestBody(body) on one body, and the response the controller makes
\* of an error
Validate ==
    /\ last = NoExchange
    /\ \E m \in ModelValues, l \in MessageLists, t \in TemperatureValues,
          k \in MaxTokensValues, st \in StreamValues :
        LET body == Body(m, l, t, k, st)
            validationError == validateRequestBody(body)
        IN  last' = [kind |-> "validate", body |-> body, result |-> validationError,
                     response |-> IF validationError.isError
                                  THEN createErrorResponse(validationError.message,
                                           "invalid_request_error", validationError.param)
                                  ELSE NoResponse]
    /\ UNCHANGED <<kv, apiKeys, now, ticks, calls, win>>
    /\ UNCHANGED streamVars
    /\ UNCHANGED raceVars

NextValidate == Validate \/ Return

SpecValidate == InitValidate /\ [][NextValidate]_vars

\* the constraints of the validator on a body, as stated
ModelPresent(b) == b.model.t = "string" /\ b.model.v # <<>>

MessagesNonEmpty(b) == b.messages.t = "array" /\ Len(b.messages.v) > 0

RoleKnown(m) == m.role.t = "string" /\ m.role.v \in {Str_system, Str_user, Str_assistant}

ContentNonEmpty(m) ==
    /\ m.content.t \notin {"undefined", "null"}
    /\ m.content.t = "string" => m.content.v # <<>>

ContentNonEmptyString(m) == m.content.t = "string" /\ m.content.v # <<>>

TemperatureInRange(b) ==
    \/ b.temperature.t = "undefined"
    \/ b.temperature.t = "number" /\ b.temperature.v >= 0 /\ b.temperature.v <= 20

MaxTokensPositive(b) ==
    \/ b.max_tokens.t = "undefined"
    \/ b.max_tokens.t = "number" /\ b.max_tokens.v >= 10

StreamBoolean(b) == b.stream.t \in {"undefined", "boolean"}

Check(violated, param, message) ==
    [violated |-> violated, param |-> param, message |-> message]

\* the checks on the messages of a body in the stated order: message by message,
\* the role of a message before its content
MessageChecks(b) ==
    IF b.messages.t # "array" THEN <<>>
    ELSE [k \in 1..(2 * Len(b.messages.v)) |->
            LET i == (k + 1) \div 2
                m == b.messages.v[i]
            IN  IF k % 2 = 1
                THEN Check(~RoleKnown(m), "messages",
                           <<"message at index ", ToString(i - 1),
                             " has invalid role. Must be one of: system, user, assistant">>)
                ELSE Check(~ContentNonEmpty(m), "messages",
                           <<"message at index ", ToString(i - 1),
                             " must have non-empty content string">>)]

\* all checks on a body in the stated order
Checks(b) ==
    << Check(~ModelPresent(b), "model", <<"model is required">>),
       Check(~MessagesNonEmpty(b), "messages",
             <<"messages array is required and cannot be empty">>) >>
    \o MessageChecks(b)
    \o << Check(~TemperatureInRange(b), "temperature",
                <<"temperature must be a number between 0 and 2">>),
          Check(~MaxTokensPositive(b), "max_tokens", <<"max_tokens must be a positive number">>),
          Check(~StreamBoolean(b), "stream", <<"stream must be a boolean value">>) >>

RECURSIVE FirstViolatedIn(_)
\* the first violated check of a sequence of checks, or none
FirstViolatedIn(cs) ==
    IF cs = <<>> THEN Check(FALSE, "", <<>>)
    ELSE IF cs[1].violated THEN cs[1]
    ELSE FirstViolatedIn(Tail(cs))

FirstViolated(b) == FirstViolatedIn(Checks(b))

ValidAsStated(b) ==
    /\ ModelPresent(b)
    /\ MessagesNonEmpty(b)
    /\ \A i \in 1..Len(b.messages.v) :
           RoleKnown(b.messages.v[i]) /\ ContentNonEmptyString(b.messages.v[i])
    /\ TemperatureInRange(b)
    /\ MaxTokensPositive(b)
    /\ StreamBoolean(b)

\* C28: the validator returns no error if and only if model is present, messages
\* is a non-empty sequence, every message has a role in {system, user,
\* assistant} and a content that is a non-empty string, temperature is absent or
\* a number in [0,2], max_tokens is absent or a number >= 1, and stream is
\* absent or a boolean.
C28_ValidIffWellFormed ==
    last.kind = "validate" => (~last.result.isError <=> ValidAsStated(last.body))

-----------------------------------------------------------------------------
(* The transcoder's output against the upstream bytes as a whole            *)

\* the loop's state when start is entered
FreshLoop ==
    [buffer |-> <<>>, sentRole |-> FALSE, out |-> <<>>, outState |-> "readable", nextId |-> 0]

\* what the response holds when all bytes of a script arrive in one read,
\* followed by done
OneRead(sc) ==
    OnDone(IF Bytes(sc) = <<>> THEN FreshLoop ELSE OnValue(Bytes(sc), FreshLoop)).out

\* C29: the chunks emitted for an exhausted upstream stream are a function of
\* the concatenation of the reads: however the bytes were divided among the
\* reads, the response holds what it holds when they arrive in one read; and a
\* last line without its newline gives the same response as the same line with
\* it.
C29_SplitIndependent ==
    (stop = "exhausted" /\ outState = "closed") =>
        /\ out = OneRead(script)
        /\ OneRead([script EXCEPT !.terminated = FALSE])
               = OneRead([script EXCEPT !.terminated = TRUE])

\* the line is cut off: its JSON text opens an object and never closes it
Malformed(line) ==
    /\ \E i \in 1..Len(line.bytes) : line.bytes[i] = "{"
    /\ \A i \in 1..Len(line.bytes) : line.bytes[i] # "}"

WellFormed(line) == ~Malformed(line)

\* the script as it is without its malformed lines
WithoutMalformed(sc) == [sc EXCEPT !.lines = SelectSeq(sc.lines, WellFormed)]

\* the content chunks agree, up to characters a read has cut
SameContents(a, b) ==
    /\ Len(a) = Len(b)
    /\ \A i \in 1..Len(a) : a[i] = b[i] \/ a[i] = Mangled(b[i])

\* C30: a line whose JSON text does not parse produces no chunk and leaves the
\* loop's state (buffer, role-sent flag, output, stream state) as it was, at
\* whatever point of the response it is processed; a response whose upstream
\* stream is exhausted holds the chunks it holds for the script without its
\* malformed lines, and ends with the terminal chunk and [DONE].
C30_MalformedLineSkipped ==
    /\ \A l \in LineKinds :
           Malformed(l) => processChunk(Decode(l.bytes), LoopState) = LoopState
    /\ (stop = "exhausted" /\ outState = "closed") =>
           /\ Kinds(out) = Kinds(OneRead(WithoutMalformed(script)))
           /\ SameContents(Contents(out), Contents(OneRead(WithoutMalformed(script))))
           /\ Len(out) >= 2
           /\ out[Len(out) - 1].kind = "terminal"
           /\ out[Len(out)].kind = "done"

\* a malformed line before a line with a fragment: role, content, terminal, [DONE]
C30_Witness ==
    /\ stop = "exhausted"
    /\ outState = "closed"
    /\ script.lines = <<LineTruncated, LineHi>>
    /\ Kinds(out) = <<"role", "content", "terminal", "done">>
    /\ Contents(out) = <<LineHi.frag>>

-----------------------------------------------------------------------------
(* Role chunk and chunk identifiers                                         *)

\* C31: the role chunk is written only when the first event that carries a
\* response fragment is processed: an event that parses but carries no
\* fragment causes no role chunk, so every role chunk in the response is
\* directly followed by a content chunk.
C31_RoleOnlyWithContent ==
    \A i \in 1..Len(out) :
        out[i].kind = "role" => (i < Len(out) /\ out[i + 1].kind = "content")

\* the chunks of the response that carry an identifier
Identified(items) == {i \in 1..Len(items) : items[i].kind \in {"role", "content", "terminal"}}

\* C32: within one streaming response no two chunks (role, content, terminal)
\* carry the same identifier.
C32_ChunkIdsUnique ==
    \A i, j \in Identified(out) : i # j => out[i].id # out[j].id

-----------------------------------------------------------------------------
(* The chat controller with the Completion Engine behind it, on bodies the  *)
(* validator accepts                                                        *)

EngineModels ==
    {JStr(<<"@cf/chat-model">>), JStr(<<"@cf/embedding-model">>), JStr(<<"gpt-4">>)}

EngineTemperatures == {JUndefined, JNum(0), JNum(10), JNum(20)}

EngineMaxTokens == {JUndefined, JNum(10), JNum(5120)}

EngineStreams == {JUndefined, JBool(FALSE), JBool(TRUE)}

InitEngine ==
    /\ PipelineIdle
    /\ StreamIdle

\* createChatCompletion on one body, with what ai.run does when it is called:
\* a well-formed reply, an empty text, no reply, or a throw
Chat ==
    /\ last = NoExchange
    /\ \E m \in EngineModels, t \in EngineTemperatures, k \in EngineMaxTokens,
          st \in EngineStreams, ai \in AIOutcomes :
        LET body == Body(m, HelloMessages, t, k, st)
            r == createChatCompletion(body, RateLimitInfoOf([count |-> 1, timestamp |-> now]), ai)
        IN  last' = [kind |-> "chat", body |-> body, ai |-> ai,
                     response |-> r.response, upstream |-> r.upstream]
    /\ UNCHANGED <<kv, apiKeys, now, ticks, calls, win>>
    /\ UNCHANGED streamVars
    /\ UNCHANGED raceVars

NextEngine == Chat \/ Return

SpecEngine == InitEngine /\ [][NextEngine]_vars

\* the request asks for a streamed answer
Streamed(x) == x.body.stream = JBool(TRUE)

\* the failures of the Completion Engine: the model is not in the registry, the
\* model lacks the chat capability, or the upstream reply is absent or carries
\* no text
ModelFailure(x) ==
    \/ ~InRegistry(x.body.model.v)
    \/ ~FindModel(x.body.model.v).chat

ReplyFailure(x) ==
    /\ ~ModelFailure(x)
    /\ \/ x.ai.kind = "null"
       \/ ~Streamed(x) /\ x.ai.kind = "text" /\ x.ai.text = <<>>

IsServerError(response) ==
    /\ response.status = 500
    /\ response.body.kind = "error"
    /\ response.body.type = "server_error"

\* C33: every failure of the Completion Engine (unknown model, model without
\* the chat capability, absent or malformed upstream reply) is answered with
\* status 500 and error type server_error, with stream false and with stream
\* true.
C33_EngineFailureIs500 ==
    (last.kind = "chat" /\ (ModelFailure(last) \/ ReplyFailure(last))) =>
        IsServerError(last.response)

-----------------------------------------------------------------------------
(* Failure of the upstream call or of an upstream read                      *)

\* C34: when the upstream call or a read of the upstream stream fails during a
\* streaming response, the response is put into the error state (unless the
\* client had cancelled it, which leaves nothing to put into error), it holds
\* no terminal chunk and no [DONE], and nothing is written to it after the
\* failure.
C34_FailureErrorsStream ==
    /\ [](stop = "failed" =>
             /\ pc = "stopped"
             /\ outState \in {"errored", "cancelled"}
             /\ Count(out, "terminal") = 0
             /\ Count(out, "done") = 0)
    /\ [][stop = "failed" => (out' = out /\ outState' = outState)]_vars

\* the failure comes after the role chunk and a content chunk were written
C34_Witness ==
    /\ stop = "failed"
    /\ outState = "errored"
    /\ Kinds(out) = <<"role", "content">>
    /\ source # <<>>

-----------------------------------------------------------------------------
(* Termination of a streaming response                                      *)

\* a response whose upstream stream does not fail and whose client does not
\* cancel: only reads that deliver a value or report done
NextStreamLive == ReadValue \/ ReadDone

\* a read is pending: the loop is at `await reader.read()`.  This is the state
\* predicate ENABLED <<NextStreamLive>>_vars: a pending read resolves with a
\* value (source shrinks) or with done (pc changes).
ReadPending == pc = "reading"

\* a read that has resolved is handled: the loop's continuation after
\* `await reader.read()` is run by the event loop.  The fairness condition is
\* WF_vars(NextStreamLive) with its ENABLED written as ReadPending.
SpecStreamLive ==
    /\ InitStream
    /\ [][NextStreamLive]_vars
    /\ ([]<>(~ReadPending) \/ []<><<NextStreamLive>>_vars)

\* the response is complete: terminal chunk, [DONE], closed
Finished ==
    /\ stop = "exhausted"
    /\ outState = "closed"
    /\ Len(out) >= 2
    /\ out[Len(out) - 1].kind = "terminal"
    /\ out[Len(out)].kind = "done"

\* C35: when no upstream read fails and the client never cancels, the response
\* eventually holds the terminal chunk and [DONE] and is closed; and the loop
\* stops reading without a failure only when the upstream bytes are used up.
C35_EventuallyFinished ==
    /\ <>Finished
    /\ []((pc = "stopped" /\ stop # "failed") => (stop = "exhausted" /\ source = <<>>))

\* a response of MaxLines lines, the last one without its newline, complete
C35_Witness ==
    /\ Finished
    /\ Len(script.lines) = MaxLines
    /\ ~script.terminated
    /\ source = <<>>
    /\ pc = "stopped"

\* what ai.run is to receive for a field of the request: its value when the
\* request has one, the default otherwise (values in tenths)
RequestedOr(field, default) == IF field.t = "number" THEN field.v ELSE default

\* C36: a chat request whose model the engine accepts makes exactly one ai.run
\* call, with the request's temperature and max_tokens when it has them, the
\* bounds 0 and 2 of the temperature range included, and with 0.7 and 256 only
\* when the field is absent.
C36_RequestParamsPassedOn ==
    (last.kind = "chat" /\ ~ModelFailure(last)) =>
        /\ Len(last.upstream) = 1
        /\ last.upstream[1].temperature
               = RequestedOr(last.body.temperature, DEFAULT_TEMPERATURE_TENTHS)
        /\ last.upstream[1].max_tokens
               = RequestedOr(last.body.max_tokens, DEFAULT_MAX_TOKENS * 10)

-----------------------------------------------------------------------------
(* Token accounting of a non-streaming completion                           *)

\* ceil(n / 4)
QuarterUp(n) == IF n % 4 = 0 THEN n \div 4 ELSE n \div 4 + 1

\* C37: a non-streaming completion reports prompt_tokens as the sum over the
\* request's messages of ceil(length(content) / 4), completion_tokens as
\* ceil(length(output text) / 4) for the text it returns, and total_tokens as
\* the sum of the two.
C37_UsageAccounting ==
    last.kind = "usage" =>
        LET usage == last.response.body.usage
            perMessage == [i \in 1..Len(last.lens) |-> QuarterUp(last.lens[i])]
        IN  /\ last.response.body.kind = "completion"
            /\ Len(last.response.body.content) = last.completion
            /\ usage.prompt_tokens = Sum(perMessage)
            /\ usage.completion_tokens = QuarterUp(Len(last.response.body.content))
            /\ usage.total_tokens = Sum(perMessage) + QuarterUp(last.completion)

\* two messages of one character and an answer of five: 2, 2, 4
C37_Witness ==
    /\ last.kind = "usage"
    /\ last.lens = <<1, 1>>
    /\ last.completion = 5
    /\ last.response.body.usage.prompt_tokens = 2
    /\ last.response.body.usage.completion_tokens = 2
    /\ last.response.body.usage.total_tokens = 4

-----------------------------------------------------------------------------
(* The worker's outermost boundary: a value thrown inside fetch's try block *)

NotThrown == [kind |-> "none", message |-> <<>>]

\* values a throw statement can carry: Error instances, a string, undefined and
\* a plain object that has a message property without being an Error
ThrownValues ==
    { [kind |-> "Error", message |-> <<"boom">>],
      [kind |-> "Error", message |-> <<>>],
      [kind |-> "string", message |-> <<"boom">>],
      [kind |-> "undefined", message |-> <<>>],
      [kind |-> "object", message |-> <<"boom">>] }

\* where in the try block the value is thrown: by `new Router(env)` before the
\* router has run, or by addSecurityHeaders after it has returned
ThrowPoints == {"router", "headers"}

\* isError(error): error instanceof Error
isError(error) == error.kind = "Error"

\* the catch block of the worker's fetch
fetchCatch(error) ==
    Secured([status |-> 500,
             headers |-> HeaderSet(NoHeaders, "Content-Type", "application/json"),
             body |-> ErrorBody(IF isError(error) THEN error.message
                                ELSE <<"An unexpected error occurred">>,
                                "internal_error", "")])

\* the worker's fetch with its try and catch: thrown is the value thrown in the
\* try block at the given point, NotThrown when the block completes
fetchGuarded(req, store, keys, t, fault, ai, thrown, point) ==
    LET r == handle(req, store, keys, t, fault, ai)
    IN  IF thrown = NotThrown
        THEN [r EXCEPT !.response = Secured(r.response)]
        ELSE IF point = "router"
        THEN Outcome(fetchCatch(thrown), store, "boundary", NoResponse, 0,
                     NoLimiter, "none", <<>>)
        ELSE [r EXCEPT !.response = fetchCatch(thrown), !.stage = "boundary"]

\* one request through the worker's fetch, during which a value may be thrown
GuardedFetch ==
    /\ last = NoExchange
    /\ calls < MaxRequests
    /\ \E req \in FaultRequests, thrown \in ThrownValues \cup {NotThrown}, point \in ThrowPoints :
        LET r == fetchGuarded(req, kv, apiKeys, now, "none", AIText, thrown, point)
        IN  /\ thrown = NotThrown => point = "router"
            /\ kv' = r.store
            /\ last' = [kind |-> "guarded", req |-> req, thrown |-> thrown, point |-> point,
                        at |-> now, before |-> kv, keys |-> apiKeys, out |-> r]
    /\ calls' = calls + 1
    /\ UNCHANGED <<apiKeys, now, ticks, win>>
    /\ UNCHANGED streamVars
    /\ UNCHANGED raceVars

NextBoundary == GuardedFetch \/ Return

SpecBoundary == Init /\ [][NextBoundary]_vars

Escaped(x) == x.kind = "guarded" /\ x.thrown # NotThrown

\* C38: a value thrown out of the router or a controller is answered by the
\* worker's fetch with status 500 and an error envelope of type server_error,
\* whose message is the thrown value's message when the value is an Error and
\* a generic message otherwise.
C38_EscapedIsServerError ==
    Escaped(last) =>
        /\ last.out.response.status = 500
        /\ last.out.response.body.kind = "error"
        /\ last.out.response.body.type = "server_error"
        /\ isError(last.thrown) => last.out.response.body.message = last.thrown.message
        /\ ~isError(last.thrown) => last.out.response.body.message \notin {t.message : t \in ThrownValues}

-----------------------------------------------------------------------------
(* Header injection on its own: addSecurityHeaders applied repeatedly to    *)
(* one headers object                                                      *)

MaxInjections == 2

\* headers a response may carry before injection: headers outside the seven,
\* and two of the seven with the value injected or another one
GivenHeaderValues ==
    ("Content-Type" :> {"application/json", "text/event-stream"})
    @@ ("X-RateLimit-Remaining" :> {"0", "59"})
    @@ ("Access-Control-Allow-Origin" :> {"*", "https://example.com"})
    @@ ("X-Frame-Options" :> {"DENY", "SAMEORIGIN"})
    @@ ("X-Content-Type-Options" :> {"nosniff", "sniff"})

\* a Headers object: its names are kept in one normalised spelling, so a name
\* occurs at most once
GivenHeaders ==
    UNION { [names -> UNION {GivenHeaderValues[n] : n \in names}] :
                names \in SUBSET DOMAIN GivenHeaderValues }

WellValued(headers) == \A n \in DOMAIN headers : headers[n] \in GivenHeaderValues[n]

InitHeaders ==
    /\ StreamIdle
    /\ RaceIdle
    /\ kv = <<>>
    /\ apiKeys = <<>>
    /\ now = 0
    /\ ticks = 0
    /\ calls = 0
    /\ win = <<>>
    /\ \E given \in GivenHeaders :
        /\ WellValued(given)
        /\ last = [kind |-> "headers", given |-> given, headers |-> given,
                   once |-> given, applied |-> 0]

\* one more call of addSecurityHeaders on the same headers object
Inject ==
    /\ last.kind = "headers"
    /\ last.applied < MaxInjections
    /\ last' = [last EXCEPT !.headers = addSecurityHeaders(@),
                            !.once = IF last.applied = 0
                                     THEN addSecurityHeaders(last.headers) ELSE @,
                            !.applied = @ + 1]
    /\ UNCHANGED <<kv, apiKeys, now, ticks, calls, win>>
    /\ UNCHANGED streamVars
    /\ UNCHANGED raceVars

NextHeaders == Inject

SpecHeaders == InitHeaders /\ [][NextHeaders]_vars

\* C39: applying addSecurityHeaders again to a headers object leaves it as the
\* first application left it, and an application changes, adds or removes no
\* header other than the seven hardening headers.
C39_InjectionIdempotent ==
    (last.kind = "headers" /\ last.applied >= 1) =>
        /\ last.headers = last.once
        /\ Cardinality(HardeningHeaders) = 7
        /\ DOMAIN last.headers = DOMAIN last.given \cup HardeningHeaders
        /\ \A n \in DOMAIN last.given \ HardeningHeaders : last.headers[n] = last.given[n]
        /\ \A n \in HardeningHeaders : last.headers[n] = SecurityHeaders[n]

\* injected twice into headers that held another X-Frame-Options and headers
\* of their own
C39_Witness ==
    /\ last.kind = "headers"
    /\ last.applied = 2
    /\ "Content-Type" \in DOMAIN last.given
    /\ "X-RateLimit-Remaining" \in DOMAIN last.given
    /\ "X-Frame-Options" \in DOMAIN last.given
    /\ last.given["X-Frame-Options"] = "SAMEORIGIN"
    /\ last.headers["X-Frame-Options"] = "DENY"
    /\ last.headers["Content-Type"] = last.given["Content-Type"]

====
